---- MODULE Spec2Model ----
(***************************************************************************)
(* Model of mitreattack/stix20/MitreAttackData.py: the relationship        *)
(* resolver get_related, the mapping merge, and the composite relationship *)
(* queries built from them, over a loaded STIX 2.0 bundle (self.src).      *)
(*                                                                         *)
(* A STIX identifier "<type>--<uuid>" is the record [type, uuid]; IdText   *)
(* spells it out as a string of characters where the code looks inside it. *)
(* A Python dict is an association list in insertion order; a Python list  *)
(* is an object on the heap `env`, so that two dict entries can share one  *)
(* list as they do after merge.                                            *)
(***************************************************************************)
EXTENDS Integers, Sequences, FiniteSets, TLC

VARIABLES src, env, reg, ret, nmerge

vars == <<src, env, reg, ret, nmerge>>

(***************************************************************************)
(* Bounds of the model.                                                    *)
(***************************************************************************)
\* relationships in a bundle of the resolver family
MaxRels == 2
\* relationships in a bundle of the composite families
MaxBundle == 4
\* length of a sequence in a mapping handed to merge
MaxLen == 1
\* merge calls in one run of the merge specification
MaxMerges == 2

(***************************************************************************)
(* Strings as character sequences.                                         *)
(***************************************************************************)
Chars(s) ==
    CASE s = "" -> <<>>
      [] s = "1" -> <<"1">>
      [] s = "2" -> <<"2">>
      [] s = "--" -> <<"-", "-">>
      [] s = "set" -> <<"s", "e", "t">>
      [] s = "bogus" -> <<"b", "o", "g", "u", "s">>
      [] s = "tool" -> <<"t", "o", "o", "l">>
      [] s = "malware" -> <<"m", "a", "l", "w", "a", "r", "e">>
      [] s = "campaign" -> <<"c", "a", "m", "p", "a", "i", "g", "n">>
      [] s = "intrusion-set" ->
            <<"i", "n", "t", "r", "u", "s", "i", "o", "n", "-", "s", "e", "t">>
      [] s = "attack-pattern" ->
            <<"a", "t", "t", "a", "c", "k", "-", "p", "a", "t", "t", "e", "r", "n">>
      [] s = "course-of-action" ->
            <<"c", "o", "u", "r", "s", "e", "-", "o", "f", "-",
              "a", "c", "t", "i", "o", "n">>

\* the text of a STIX identifier
IdText(id) == Chars(id.type) \o Chars("--") \o Chars(id.uuid)

\* Python's `a in b` on two strings
IsSubstring(a, b) ==
    \E i \in 0..(Len(b) - Len(a)) : SubSeq(b, i + 1, i + Len(a)) = a

\* MitreAttackData.stix_types (the tags this model's bundles use)
stix_types ==
    {"attack-pattern", "malware", "tool", "intrusion-set", "campaign",
     "course-of-action", "x-mitre-matrix", "x-mitre-tactic",
     "x-mitre-data-source", "x-mitre-data-component"}

(***************************************************************************)
(* Python dicts as association lists in insertion order.                   *)
(***************************************************************************)
Has(d, k) == \E i \in 1..Len(d) : d[i].key = k

Idx(d, k) == CHOOSE i \in 1..Len(d) : d[i].key = k

Val(d, k) == d[Idx(d, k)].val

Put(d, k, v) ==
    IF Has(d, k) THEN [d EXCEPT ![Idx(d, k)].val = v]
    ELSE Append(d, [key |-> k, val |-> v])

Keys(d) == {d[i].key : i \in 1..Len(d)}

\* x.get(k, default) on a record
GetOr(x, k, default) == IF k \in DOMAIN x THEN x[k] ELSE default

(***************************************************************************)
(* The store: self.src, a MemoryStore holding the bundle's records in      *)
(* bundle order.  A query keeps the records that pass every filter; a      *)
(* record without the filtered property does not pass.                     *)
(***************************************************************************)
Passes(x, f) == (f.property \in DOMAIN x) /\ x[f.property] = f.value

Query(filters) ==
    SelectSeq(src, LAMBDA x : \A i \in 1..Len(filters) : Passes(x, filters[i]))

Filter(p, v) == [property |-> p, value |-> v]

\* as remove_revoked_deprecated, the deprecated objects kept
remove_revoked_only(stix_objects) ==
    SelectSeq(stix_objects, LAMBDA x : GetOr(x, "revoked", FALSE) = FALSE)

\* remove_revoked_deprecated: keep x unless a flag is present and true
remove_revoked_deprecated(stix_objects) ==
    SelectSeq(stix_objects,
              LAMBDA x : GetOr(x, "x_mitre_deprecated", FALSE) = FALSE
                         /\ GetOr(x, "revoked", FALSE) = FALSE)

\* the typed view of a record: the record's fields are kept
StixObjectFactory(o) == o

\* the typed views Matrix, Tactic, DataSource and DataComponent built from a
\* record: the record's fields are kept
Matrix(m) == m

Tactic(t) == t

DataSource(ds) == ds

DataComponent(dc) == dc

(***************************************************************************)
(* The per-type accessors.                                                 *)
(***************************************************************************)
\* [f(x) for x in s]
MapSeq(f(_), s) == [i \in 1..Len(s) |-> f(s[i])]

\* lines 78-79 and alike: the filter applied when the flag is set
FilteredIf(remove_flag, stix_objects) ==
    IF remove_flag THEN remove_revoked_deprecated(stix_objects) ELSE stix_objects

\* lines 64-81
get_matrices(remove_flag) ==
    LET matrices == Query(<<Filter("type", "x-mitre-matrix")>>)
    IN MapSeq(Matrix, FilteredIf(remove_flag, matrices))

\* lines 83-100
get_tactics(remove_flag) ==
    LET tactics == Query(<<Filter("type", "x-mitre-tactic")>>)
    IN MapSeq(Tactic, FilteredIf(remove_flag, tactics))

\* lines 102-118
get_techniques(remove_flag) ==
    FilteredIf(remove_flag, Query(<<Filter("type", "attack-pattern")>>))

\* lines 120-136
get_mitigations(remove_flag) ==
    FilteredIf(remove_flag, Query(<<Filter("type", "course-of-action")>>))

\* lines 138-154
get_groups(remove_flag) ==
    FilteredIf(remove_flag, Query(<<Filter("type", "intrusion-set")>>))

\* as get_software, the flag ignored
get_software_unfiltered(remove_flag) ==
    Query(<<Filter("type", "tool")>>) \o Query(<<Filter("type", "malware")>>)

\* lines 156-177: the tools, then the malware
get_software(remove_flag) ==
    LET software == Query(<<Filter("type", "tool")>>)
                    \o Query(<<Filter("type", "malware")>>)
    IN FilteredIf(remove_flag, software)

\* lines 179-195
get_campaigns(remove_flag) ==
    FilteredIf(remove_flag, Query(<<Filter("type", "campaign")>>))

\* lines 197-214
get_datasources(remove_flag) ==
    LET datasources == Query(<<Filter("type", "x-mitre-data-source")>>)
    IN MapSeq(DataSource, FilteredIf(remove_flag, datasources))

\* lines 216-233
get_datacomponents(remove_flag) ==
    LET datacomponents == Query(<<Filter("type", "x-mitre-data-component")>>)
    IN MapSeq(DataComponent, FilteredIf(remove_flag, datacomponents))

(***************************************************************************)
(* Filters with an operator, on a property or on a property of the entries *)
(* of a property (`external_references.external_id`).  The property is the *)
(* path <<"external_references", "external_id">>.  A record without the    *)
(* first property of the path does not pass; a list property passes `=`    *)
(* and `in` when one of its elements does, and `contains` when the value   *)
(* is one of its elements.                                                 *)
(***************************************************************************)
\* the properties whose value is a list
ListProperties ==
    {"external_references", "kill_chain_phases", "aliases", "x_mitre_aliases",
     "tactic_refs"}

FilterOp(path, op, value) == [property |-> path, op |-> op, value |-> value]

\* Filter._check_property
CheckProperty(op, value, stix_obj_property) ==
    CASE op = "=" -> stix_obj_property = value
      [] op = "in" -> \E i \in 1..Len(value) : value[i] = stix_obj_property
      [] op = "contains" ->
            \E i \in 1..Len(stix_obj_property) : stix_obj_property[i] = value

RECURSIVE CheckFilter(_, _, _, _)
CheckFilter(stix_obj, path, op, value) ==
    LET prop == Head(path)
    IN IF prop \notin DOMAIN stix_obj THEN FALSE
       ELSE IF Len(path) > 1
       THEN IF prop \in ListProperties
            THEN \E i \in 1..Len(stix_obj[prop]) :
                    CheckFilter(stix_obj[prop][i], Tail(path), op, value)
            ELSE CheckFilter(stix_obj[prop], Tail(path), op, value)
       ELSE IF prop \in ListProperties /\ op # "contains"
       THEN \E i \in 1..Len(stix_obj[prop]) :
               CheckProperty(op, value, stix_obj[prop][i])
       ELSE CheckProperty(op, value, stix_obj[prop])

\* self.src.query with such filters
QueryOp(filters) ==
    SelectSeq(src, LAMBDA x : \A i \in 1..Len(filters) :
                                 CheckFilter(x, filters[i].property,
                                             filters[i].op, filters[i].value))

(***************************************************************************)
(* The lookups.  A call ends with a value or with an exception; `queries`  *)
(* counts the store queries the call has issued by then.                   *)
(***************************************************************************)
Raised(exception, queries) ==
    [kind |-> "raise", val |-> <<>>, exception |-> exception, queries |-> queries]

Returned(kind, val, queries) ==
    [kind |-> kind, val |-> val, exception |-> "", queries |-> queries]

\* query(...)[0]
FirstOf(found, queries) ==
    IF found = <<>> THEN Raised("IndexError", queries)
    ELSE Returned("object", found[1], queries)

\* lines 450-475
get_object_by_attack_id(attack_id, object_type) ==
    IF object_type \notin stix_types THEN Raised("ValueError", 0)
    ELSE LET found ==
                 QueryOp(<<FilterOp(<<"external_references", "external_id">>,
                                    "=", attack_id),
                           FilterOp(<<"type">>, "=", object_type)>>)
             object == FirstOf(found, 1)
         IN IF object.kind = "raise" THEN object
            ELSE Returned("object", StixObjectFactory(object.val), 1)

\* as get_object_by_name, the last match returned
get_object_by_name_last(name, object_type) ==
    IF object_type \notin stix_types THEN Raised("ValueError", 0)
    ELSE LET found == QueryOp(<<FilterOp(<<"type">>, "=", object_type),
                               FilterOp(<<"name">>, "=", name)>>)
         IN IF found = <<>> THEN Raised("IndexError", 1)
            ELSE Returned("object", StixObjectFactory(found[Len(found)]), 1)

\* lines 477-503
get_object_by_name(name, object_type) ==
    IF object_type \notin stix_types THEN Raised("ValueError", 0)
    ELSE LET found == QueryOp(<<FilterOp(<<"type">>, "=", object_type),
                               FilterOp(<<"name">>, "=", name)>>)
             object == FirstOf(found, 1)
         IN IF object.kind = "raise" THEN object
            ELSE Returned("object", StixObjectFactory(object.val), 1)

\* lines 505-522
get_group_by_alias(alias) ==
    FirstOf(QueryOp(<<FilterOp(<<"type">>, "=", "intrusion-set"),
                      FilterOp(<<"aliases">>, "contains", alias)>>), 1)

\* lines 524-541
get_campaign_by_alias(alias) ==
    FirstOf(QueryOp(<<FilterOp(<<"type">>, "=", "campaign"),
                      FilterOp(<<"aliases">>, "contains", alias)>>), 1)

\* lines 543-570: the malware, then the tools
get_software_by_alias(alias) ==
    LET malware_filter == <<FilterOp(<<"type">>, "=", "malware"),
                            FilterOp(<<"x_mitre_aliases">>, "contains", alias)>>
        tool_filter == <<FilterOp(<<"type">>, "=", "tool"),
                         FilterOp(<<"x_mitre_aliases">>, "contains", alias)>>
    IN FirstOf(QueryOp(malware_filter) \o QueryOp(tool_filter), 2)

\* str.lower() on the letters of the model's texts
LowerChar(c) ==
    CASE c = "A" -> "a"
      [] c = "B" -> "b"
      [] OTHER -> c

lower(s) == [i \in 1..Len(s) |-> LowerChar(s[i])]

\* the argument object_type left out
None == "<None>"

\* `if object_type:` holds for a string that is not empty
Truthy(object_type) == object_type \notin {None, ""}

\* iterating over the store object itself, self.src, which the code hands to
\* filter() when object_type is not given: the store either is not iterable
\* or yields its records
StoreIteration ==
    {Raised("TypeError", 0), Returned("list", src, 0)}

\* lines 267-270, on the objects to search
SearchContent(content, objects, remove_flag, queries) ==
    IF \E i \in 1..Len(objects) : "description" \notin DOMAIN objects[i]
    THEN Raised("AttributeError", queries)
    ELSE Returned("list",
                  FilteredIf(remove_flag,
                             SelectSeq(objects,
                                       LAMBDA t : IsSubstring(lower(content),
                                                              lower(t.description)))),
                  queries)

\* lines 239-270; `iterated` is what iterating over self.src gives
get_objects_by_content(content, object_type, remove_flag, iterated) ==
    IF Truthy(object_type)
    THEN IF object_type \notin stix_types THEN Raised("ValueError", 0)
         ELSE SearchContent(content, QueryOp(<<FilterOp(<<"type">>, "=", object_type)>>),
                            remove_flag, 1)
    ELSE IF iterated.kind = "raise" THEN iterated
         ELSE SearchContent(content, iterated.val, remove_flag, 0)

\* lines 314-318
domain_to_kill_chain ==
    <<[key |-> "enterprise-attack", val |-> "mitre-attack"],
      [key |-> "mobile-attack", val |-> "mitre-mobile-attack"],
      [key |-> "ics-attack", val |-> "mitre-ics-attack"]>>

\* lines 296-330
get_techniques_by_tactic(tactic_shortname, domain, remove_flag) ==
    IF domain \notin Keys(domain_to_kill_chain) THEN Raised("ValueError", 0)
    ELSE LET techniques ==
                 QueryOp(<<FilterOp(<<"type">>, "=", "attack-pattern"),
                           FilterOp(<<"kill_chain_phases", "phase_name">>,
                                    "=", tactic_shortname),
                           FilterOp(<<"kill_chain_phases", "kill_chain_name">>,
                                    "=", Val(domain_to_kill_chain, domain))>>)
         IN Returned("list", FilteredIf(remove_flag, techniques), 1)

\* self.src.get(stix_id): the stored record with this identifier, as a list
\* of one record, or the absent value, as the empty list
Get(stix_id) == SelectSeq(src, LAMBDA x : x.id = stix_id)

\* lines 434-448: the typed view cannot be built from the absent value
get_object_by_stix_id(stix_id) ==
    LET object == Get(stix_id)
    IN IF object = <<>> THEN Raised("AttributeError", 1)
       ELSE Returned("object", StixObjectFactory(object[1]), 1)

\* as get_attack_id, the first reference of the namespace taken wherever it
\* stands
get_attack_id_any_position(stix_id) ==
    LET obj == get_object_by_stix_id(stix_id)
    IN IF obj.kind = "raise" THEN obj
       ELSE LET external_references == GetOr(obj.val, "external_references", <<>>)
                attack_sources ==
                    SelectSeq(external_references,
                              LAMBDA r : r.external_id # ""
                                         /\ r.source_name = "mitre-attack")
            IN IF attack_sources # <<>>
               THEN Returned("value", attack_sources[1].external_id, 1)
               ELSE Returned("value", None, 1)

\* lines 576-595: obj.get gives the absent value for an entity without
\* external_references, which `if external_references:` takes as it takes
\* the empty list
get_attack_id(stix_id) ==
    LET obj == get_object_by_stix_id(stix_id)
    IN IF obj.kind = "raise" THEN obj
       ELSE LET external_references == GetOr(obj.val, "external_references", <<>>)
            IN IF external_references # <<>>
               THEN LET attack_source == external_references[1]
                    IN IF /\ GetOr(attack_source, "external_id", "") # ""
                          /\ GetOr(attack_source, "source_name", "") = "mitre-attack"
                       THEN Returned("value", attack_source.external_id, 1)
                       ELSE Returned("value", None, 1)
               ELSE Returned("value", None, 1)

\* self.src.relationships(stix_id, relationship_type, source_only=True): the
\* edges of this type whose source is stix_id, in store order
Relationships(stix_id, relationship_type) ==
    QueryOp(<<FilterOp(<<"type">>, "=", "relationship"),
              FilterOp(<<"relationship_type">>, "=", relationship_type),
              FilterOp(<<"source_ref">>, "=", stix_id)>>)

\* lines 1491-1512: query returns a list, never the absent value, so the
\* guard of line 1509 always passes and the first element is taken
get_revoked_by(stix_id) ==
    LET relations == Relationships(stix_id, "revoked-by")
        revoked_by ==
            QueryOp(<<FilterOp(<<"id">>, "in",
                               [i \in 1..Len(relations) |-> relations[i].target_ref]),
                      FilterOp(<<"revoked">>, "=", FALSE)>>)
    IN FirstOf(revoked_by, 2)

(***************************************************************************)
(* get_tactics_by_matrix                                                   *)
(***************************************************************************)
\* the None that self.src.get returns for an identifier the store lacks
NoneObject == [type |-> "NoneType"]

\* self.src.get(stix_id)
StoreGet(stix_id) ==
    LET found == SelectSeq(src, LAMBDA x : x.id = stix_id)
    IN IF found = <<>> THEN NoneObject ELSE found[Len(found)]

\* as ResolveRefs, the tactics in the order of the store
ResolveRefsStoreOrder(tactic_refs) ==
    SelectSeq(src, LAMBDA x : \E j \in 1..Len(tactic_refs) : x.id = tactic_refs[j])

\* lines 347-348: the tactics of one matrix, in the order of its tactic_refs
ResolveRefs(tactic_refs) ==
    [j \in 1..Len(tactic_refs) |-> StoreGet(tactic_refs[j])]

\* lines 345-348: the loop over the matrices; tactics[name] = [] starts the
\* entry of the name anew
RECURSIVE TacticsLoop(_, _)
TacticsLoop(matrices, tactics) ==
    IF matrices = <<>> THEN tactics
    ELSE TacticsLoop(Tail(matrices),
                     Put(tactics, Head(matrices).name,
                         ResolveRefs(Head(matrices).tactic_refs)))

\* lines 332-350
get_tactics_by_matrix ==
    TacticsLoop(Query(<<Filter("type", "x-mitre-matrix")>>), <<>>)

(***************************************************************************)
(* get_techniques_used_by_group_software                                   *)
(***************************************************************************)
\* stix2.utils.get_type_from_id: the text of the identifier before `--`
get_type_from_id(stix_id) == stix_id.type

\* as get_techniques_used_by_group_software, one technique for each edge
\* from a software of the group
get_techniques_used_by_group_software_per_edge(group_stix_id) ==
    LET group_uses ==
            SelectSeq(Relationships(group_stix_id, "uses"),
                      LAMBDA r : get_type_from_id(r.target_ref) \in {"malware", "tool"})
        source_refs == MapSeq(LAMBDA r : r.target_ref, group_uses)
        software_uses ==
            QueryOp(<<FilterOp(<<"type">>, "=", "relationship"),
                      FilterOp(<<"relationship_type">>, "=", "uses"),
                      FilterOp(<<"source_ref">>, "in", source_refs)>>)
        technique_ids == MapSeq(LAMBDA r : r.target_ref, software_uses)
    IN SelectSeq(MapSeq(StoreGet, technique_ids),
                 LAMBDA x : x.type = "attack-pattern")

\* lines 392-428
get_techniques_used_by_group_software(group_stix_id) ==
    LET group_uses ==
            SelectSeq(Relationships(group_stix_id, "uses"),
                      LAMBDA r : get_type_from_id(r.target_ref) \in {"malware", "tool"})
        source_refs == MapSeq(LAMBDA r : r.target_ref, group_uses)
        software_uses ==
            QueryOp(<<FilterOp(<<"type">>, "=", "relationship"),
                      FilterOp(<<"relationship_type">>, "=", "uses"),
                      FilterOp(<<"source_ref">>, "in", source_refs)>>)
        technique_ids == MapSeq(LAMBDA r : r.target_ref, software_uses)
    IN QueryOp(<<FilterOp(<<"type">>, "=", "attack-pattern"),
                 FilterOp(<<"id">>, "in", technique_ids)>>)

(***************************************************************************)
(* get_related                                                             *)
(***************************************************************************)
\* as BuildIdToRelated, the related id always the target_ref
RECURSIVE BuildIdToRelatedTargetOnly(_, _, _, _, _)
BuildIdToRelatedTargetOnly(relationships, source_type, target_type, reverse, acc) ==
    IF relationships = <<>> THEN acc
    ELSE
        LET relationship == Head(relationships)
            anchor == IF reverse THEN relationship.target_ref
                      ELSE relationship.source_ref
            entry == [relationship |-> relationship, id |-> relationship.target_ref]
            next ==
                IF IsSubstring(Chars(source_type), IdText(relationship.source_ref))
                   /\ IsSubstring(Chars(target_type), IdText(relationship.target_ref))
                THEN IF Has(acc, anchor)
                     THEN Put(acc, anchor, Append(Val(acc, anchor), entry))
                     ELSE Put(acc, anchor, <<entry>>)
                ELSE acc
        IN BuildIdToRelatedTargetOnly(Tail(relationships), source_type,
                                      target_type, reverse, next)

\* as BuildIdToRelated, a later edge of an anchor put before the earlier ones
RECURSIVE BuildIdToRelatedPrepend(_, _, _, _, _)
BuildIdToRelatedPrepend(relationships, source_type, target_type, reverse, acc) ==
    IF relationships = <<>> THEN acc
    ELSE
        LET relationship == Head(relationships)
            anchor == IF reverse THEN relationship.target_ref
                      ELSE relationship.source_ref
            entry == [relationship |-> relationship,
                      id |-> IF reverse THEN relationship.source_ref
                             ELSE relationship.target_ref]
            next ==
                IF IsSubstring(Chars(source_type), IdText(relationship.source_ref))
                   /\ IsSubstring(Chars(target_type), IdText(relationship.target_ref))
                THEN IF Has(acc, anchor)
                     THEN Put(acc, anchor, <<entry>> \o Val(acc, anchor))
                     ELSE Put(acc, anchor, <<entry>>)
                ELSE acc
        IN BuildIdToRelatedPrepend(Tail(relationships), source_type,
                                   target_type, reverse, next)

\* lines 647-672: group the edges by anchor, in store order
RECURSIVE BuildIdToRelated(_, _, _, _, _)
BuildIdToRelated(relationships, source_type, target_type, reverse, acc) ==
    IF relationships = <<>> THEN acc
    ELSE
        LET relationship == Head(relationships)
            anchor == IF reverse THEN relationship.target_ref
                      ELSE relationship.source_ref
            entry == [relationship |-> relationship,
                      id |-> IF reverse THEN relationship.source_ref
                             ELSE relationship.target_ref]
            next ==
                IF IsSubstring(Chars(source_type), IdText(relationship.source_ref))
                   /\ IsSubstring(Chars(target_type), IdText(relationship.target_ref))
                THEN IF Has(acc, anchor)
                     THEN Put(acc, anchor, Append(Val(acc, anchor), entry))
                     ELSE Put(acc, anchor, <<entry>>)
                ELSE acc
        IN BuildIdToRelated(Tail(relationships), source_type, target_type,
                            reverse, next)

\* as RelatedObjects, without the revoked filter
RelatedObjectsAnyStatus(source_type, target_type, reverse) ==
    IF ~reverse
    THEN Query(<<Filter("type", target_type)>>)
    ELSE Query(<<Filter("type", source_type)>>)

\* as RelatedObjects, with deprecated objects removed as well
RelatedObjectsNoDeprecated(source_type, target_type, reverse) ==
    remove_revoked_deprecated(
        IF ~reverse
        THEN Query(<<Filter("type", target_type), Filter("revoked", FALSE)>>)
        ELSE Query(<<Filter("type", source_type), Filter("revoked", FALSE)>>))

\* lines 674-684: all objects of the related type
RelatedObjects(source_type, target_type, reverse) ==
    IF ~reverse
    THEN Query(<<Filter("type", target_type), Filter("revoked", FALSE)>>)
    ELSE Query(<<Filter("type", source_type), Filter("revoked", FALSE)>>)

\* lines 686-689: lookup of stix id to stix object (a later record of the
\* same id overwrites an earlier one)
IdToTarget(targets) ==
    [i \in {targets[j].id : j \in 1..Len(targets)} |->
        targets[CHOOSE j \in 1..Len(targets) :
                    targets[j].id = i
                    /\ \A k \in (j + 1)..Len(targets) : targets[k].id # i]]

\* lines 694-701: the value of one anchor
RECURSIVE OutputValue(_, _)
OutputValue(relateds, id_to_target) ==
    IF relateds = <<>> THEN <<>>
    ELSE
        LET related == Head(relateds)
            rest == OutputValue(Tail(relateds), id_to_target)
        IN IF ~(related.id \in DOMAIN id_to_target) THEN rest
           ELSE <<[object |-> StixObjectFactory(id_to_target[related.id]),
                   relationship |-> related.relationship]>> \o rest

\* as Output, keeping only the anchors that are in the store and not revoked
OutputStoredAnchors(id_to_related, id_to_target) ==
    SelectSeq([i \in 1..Len(id_to_related) |->
                  [key |-> id_to_related[i].key,
                   val |-> OutputValue(id_to_related[i].val, id_to_target)]],
              LAMBDA entry : \E m \in 1..Len(src) :
                                src[m].id = entry.key /\ src[m].revoked = FALSE)

\* as Output, keeping only the anchors with a related object
OutputNonEmpty(id_to_related, id_to_target) ==
    SelectSeq([i \in 1..Len(id_to_related) |->
                  [key |-> id_to_related[i].key,
                   val |-> OutputValue(id_to_related[i].val, id_to_target)]],
              LAMBDA entry : entry.val # <<>>)

\* lines 691-703: the output mapping, one entry per anchor
Output(id_to_related, id_to_target) ==
    [i \in 1..Len(id_to_related) |->
        [key |-> id_to_related[i].key,
         val |-> OutputValue(id_to_related[i].val, id_to_target)]]

\* get_related, by value: a dict of fresh lists
get_related(source_type, relationship_type, target_type, reverse) ==
    LET relationships ==
            remove_revoked_deprecated(
                Query(<<Filter("type", "relationship"),
                        Filter("relationship_type", relationship_type),
                        Filter("revoked", FALSE)>>))
        id_to_related ==
            BuildIdToRelated(relationships, source_type, target_type, reverse, <<>>)
        id_to_target == IdToTarget(RelatedObjects(source_type, target_type, reverse))
    IN Output(id_to_related, id_to_target)

(***************************************************************************)
(* The heap of one call: list objects and dict objects, by address.  A     *)
(* dict object maps a key to the address of its list.                      *)
(***************************************************************************)
EmptyEnv == [lists |-> <<>>, dicts |-> <<>>]

\* the value of the dict at address d: key -> sequence
Deref(e, d) ==
    [i \in 1..Len(e.dicts[d]) |->
        [key |-> e.dicts[d][i].key, val |-> e.lists[e.dicts[d][i].val]]]

\* a new dict object holding `value`, each of its sequences a new list object
AllocDict(e, value) ==
    LET n == Len(e.lists)
    IN [env |-> [lists |-> e.lists \o [i \in 1..Len(value) |-> value[i].val],
                 dicts |-> Append(e.dicts,
                                  [i \in 1..Len(value) |->
                                      [key |-> value[i].key, val |-> n + i]])],
        ref |-> Len(e.dicts) + 1]

\* the address of the store's own collection of records, on a heap that
\* holds it: the first object made, by __init__
StoreList == 1

\* the heap after __init__ has loaded `bundle`
LoadedEnv(bundle) == [lists |-> <<bundle>>, dicts |-> <<>>]

\* as get_related_obj, the list of the first anchor being the list object
\* the store keeps its records in
get_related_obj_store_list(e, source_type, relationship_type, target_type, reverse) ==
    LET r == AllocDict(e, get_related(source_type, relationship_type,
                                      target_type, reverse))
    IN IF r.env.dicts[r.ref] = <<>> THEN r
       ELSE [env |-> [r.env EXCEPT !.dicts[r.ref][1].val = StoreList],
             ref |-> r.ref]

\* as get_related_obj, with a cache: the lookup of the tools of the groups
\* returns the dict it returned before, which is the mapping that
\* get_software_used_by_groups handed to the caller
get_related_obj_cached(e, source_type, relationship_type, target_type, reverse) ==
    LET hits == {i \in 1..Len(reg) : reg[i].op = "get_software_used_by_groups"}
    IN IF hits # {}
          /\ <<source_type, relationship_type, target_type, reverse>>
                = <<"intrusion-set", "uses", "tool", FALSE>>
       THEN [env |-> e, ref |-> reg[CHOOSE i \in hits : TRUE].ref]
       ELSE AllocDict(e, get_related(source_type, relationship_type,
                                     target_type, reverse))

\* as get_related_obj, the mapping of the tools of the groups kept in one
\* place for all callers: a reader is handed the dict another reader holds
get_related_obj_shared(e, source_type, relationship_type, target_type, reverse) ==
    LET hits == {r \in DOMAIN reg :
                    /\ reg[r].op = "get_software_used_by_groups"
                    /\ reg[r].tools_used_by_group \in 1..Len(e.dicts)}
    IN IF hits # {}
          /\ <<source_type, relationship_type, target_type, reverse>>
                = <<"intrusion-set", "uses", "tool", FALSE>>
       THEN [env |-> e, ref |-> reg[CHOOSE r \in hits : TRUE].tools_used_by_group]
       ELSE AllocDict(e, get_related(source_type, relationship_type,
                                     target_type, reverse))

\* a call of get_related on the heap
get_related_obj(e, source_type, relationship_type, target_type, reverse) ==
    AllocDict(e, get_related(source_type, relationship_type, target_type, reverse))

(***************************************************************************)
(* merge                                                                   *)
(***************************************************************************)
\* as MergeStep, the list of map_b replacing the list of map_a
MergeStepOverwrite(e, map_a, map_b, i) ==
    [e EXCEPT !.dicts[map_a] =
                 Put(e.dicts[map_a], e.dicts[map_b][i].key, e.dicts[map_b][i].val)]

\* as MergeStep, a key of map_b that map_a lacks left out
MergeStepExistingOnly(e, map_a, map_b, i) ==
    LET id == e.dicts[map_b][i].key
        list_b == e.dicts[map_b][i].val
    IN IF Has(e.dicts[map_a], id)
       THEN LET list_a == Val(e.dicts[map_a], id)
            IN [e EXCEPT !.lists[list_a] = e.lists[list_a] \o e.lists[list_b]]
       ELSE e

\* lines 721-724: one iteration of `for id in map_b`
MergeStep(e, map_a, map_b, i) ==
    LET id == e.dicts[map_b][i].key
        list_b == e.dicts[map_b][i].val
    IN IF Has(e.dicts[map_a], id)
       THEN LET list_a == Val(e.dicts[map_a], id)
            IN [e EXCEPT !.lists[list_a] = e.lists[list_a] \o e.lists[list_b]]
       ELSE [e EXCEPT !.dicts[map_a] = Put(e.dicts[map_a], id, list_b)]

RECURSIVE MergeLoop(_, _, _, _)
MergeLoop(e, map_a, map_b, i) ==
    IF i > Len(e.dicts[map_b]) THEN e
    ELSE MergeLoop(MergeStep(e, map_a, map_b, i), map_a, map_b, i + 1)

\* lines 705-725: merge mutates map_a and returns it
merge(e, map_a, map_b) == [env |-> MergeLoop(e, map_a, map_b, 1), ref |-> map_a]

(***************************************************************************)
(* Composite relationship queries.                                         *)
(***************************************************************************)
\* the sequence of mapping m under key k, empty when k is no key
SeqOr(m, k) == IF Has(m, k) THEN Val(m, k) ELSE <<>>

\* as Bridged, only the first bridging entity contributing
BridgedFirstOnly(e, hops, second) ==
    IF hops = <<>> THEN <<>>
    ELSE LET campaign_id == Head(hops).object.id
         IN IF Has(e.dicts[second], campaign_id)
            THEN e.lists[Val(e.dicts[second], campaign_id)]
            ELSE <<>>

\* lines 756-761: the contributions of the bridging entities of one anchor,
\* read from the second-hop dict `second`
RECURSIVE Bridged(_, _, _)
Bridged(e, hops, second) ==
    IF hops = <<>> THEN <<>>
    ELSE
        LET campaign_id == Head(hops).object.id
            found == IF Has(e.dicts[second], campaign_id)
                     THEN e.lists[Val(e.dicts[second], campaign_id)]
                     ELSE <<>>
        IN found \o Bridged(e, Tail(hops), second)

\* as BridgeStep, the bridged contributions put before the direct entries
BridgeStepBridgedFirst(e, direct, first, second, i) ==
    LET anchor == e.dicts[first][i].key
        bridged == Bridged(e, e.lists[e.dicts[first][i].val], second)
    IN IF Has(e.dicts[direct], anchor)
       THEN LET l == Val(e.dicts[direct], anchor)
            IN [e EXCEPT !.lists[l] = bridged \o e.lists[l]]
       ELSE [lists |-> Append(e.lists, bridged),
             dicts |-> [e.dicts EXCEPT
                          ![direct] = Put(e.dicts[direct], anchor, Len(e.lists) + 1)]]

\* as BridgeStep, a bridged pair left out when the list of the anchor has a
\* pair with the same object
BridgeStepDeduplicated(e, direct, first, second, i) ==
    LET anchor == e.dicts[first][i].key
        bridged == Bridged(e, e.lists[e.dicts[first][i].val], second)
    IN IF Has(e.dicts[direct], anchor)
       THEN LET l == Val(e.dicts[direct], anchor)
                fresh == SelectSeq(bridged,
                                   LAMBDA p : \A j \in 1..Len(e.lists[l]) :
                                                 e.lists[l][j].object.id # p.object.id)
            IN [e EXCEPT !.lists[l] = e.lists[l] \o fresh]
       ELSE [lists |-> Append(e.lists, bridged),
             dicts |-> [e.dicts EXCEPT
                          ![direct] = Put(e.dicts[direct], anchor, Len(e.lists) + 1)]]

\* as BridgeStep, an anchor without a direct entry left without an entry
BridgeStepDirectOnly(e, direct, first, second, i) ==
    LET anchor == e.dicts[first][i].key
        bridged == Bridged(e, e.lists[e.dicts[first][i].val], second)
    IN IF Has(e.dicts[direct], anchor)
       THEN LET l == Val(e.dicts[direct], anchor)
            IN [e EXCEPT !.lists[l] = e.lists[l] \o bridged]
       ELSE e

\* lines 755-767: one iteration of the loop over the anchors of the first hop
BridgeStep(e, direct, first, second, i) ==
    LET anchor == e.dicts[first][i].key
        bridged == Bridged(e, e.lists[e.dicts[first][i].val], second)
    IN IF Has(e.dicts[direct], anchor)
       THEN LET l == Val(e.dicts[direct], anchor)
            IN [e EXCEPT !.lists[l] = e.lists[l] \o bridged]
       ELSE [lists |-> Append(e.lists, bridged),
             dicts |-> [e.dicts EXCEPT
                          ![direct] = Put(e.dicts[direct], anchor, Len(e.lists) + 1)]]

RECURSIVE BridgeLoop(_, _, _, _, _)
BridgeLoop(e, direct, first, second, i) ==
    IF i > Len(e.dicts[first]) THEN e
    ELSE BridgeLoop(BridgeStep(e, direct, first, second, i),
                    direct, first, second, i + 1)

\* lines 731-768, on the heap e: the heap after the call and the address of
\* the mapping returned
get_software_used_by_groups_obj(e) ==
    LET tools_used_by_group ==
            get_related_obj(e, "intrusion-set", "uses", "tool", FALSE)
        malware_used_by_group ==
            get_related_obj(tools_used_by_group.env,
                            "intrusion-set", "uses", "malware", FALSE)
        software_used_by_group ==
            merge(malware_used_by_group.env,
                  tools_used_by_group.ref, malware_used_by_group.ref)
        tools_used_by_campaign ==
            get_related_obj(software_used_by_group.env,
                            "campaign", "uses", "tool", FALSE)
        malware_used_by_campaign ==
            get_related_obj(tools_used_by_campaign.env,
                            "campaign", "uses", "malware", FALSE)
        software_used_by_campaign ==
            merge(malware_used_by_campaign.env,
                  tools_used_by_campaign.ref, malware_used_by_campaign.ref)
        campaigns ==
            get_related_obj(software_used_by_campaign.env,
                            "campaign", "attributed-to", "intrusion-set", TRUE)
        done == BridgeLoop(campaigns.env, software_used_by_group.ref,
                           campaigns.ref, software_used_by_campaign.ref, 1)
    IN [env |-> done, ref |-> software_used_by_group.ref]

\* the value of the mapping a call on the heap returns
ValueOf(r) == Deref(r.env, r.ref)

\* lines 731-768, by value
get_software_used_by_groups == ValueOf(get_software_used_by_groups_obj(EmptyEnv))

\* lines 795-832, on the heap e
get_groups_using_software_obj(e) ==
    LET groups_using_tool ==
            get_related_obj(e, "intrusion-set", "uses", "tool", TRUE)
        groups_using_malware ==
            get_related_obj(groups_using_tool.env,
                            "intrusion-set", "uses", "malware", TRUE)
        groups_using_software ==
            merge(groups_using_malware.env,
                  groups_using_tool.ref, groups_using_malware.ref)
        campaigns_using_tools ==
            get_related_obj(groups_using_software.env,
                            "campaign", "uses", "tool", TRUE)
        campaigns_using_malware ==
            get_related_obj(campaigns_using_tools.env,
                            "campaign", "uses", "malware", TRUE)
        campaigns_using_software ==
            merge(campaigns_using_malware.env,
                  campaigns_using_tools.ref, campaigns_using_malware.ref)
        groups ==
            get_related_obj(campaigns_using_software.env,
                            "campaign", "attributed-to", "intrusion-set", FALSE)
        done == BridgeLoop(groups.env, groups_using_software.ref,
                           campaigns_using_software.ref, groups.ref, 1)
    IN [env |-> done, ref |-> groups_using_software.ref]

\* lines 795-832, by value
get_groups_using_software == ValueOf(get_groups_using_software_obj(EmptyEnv))

\* lines 1014-1045, on the heap e
get_techniques_used_by_groups_obj(e) ==
    LET techniques_used_by_groups ==
            get_related_obj(e, "intrusion-set", "uses", "attack-pattern", FALSE)
        campaigns ==
            get_related_obj(techniques_used_by_groups.env,
                            "campaign", "attributed-to", "intrusion-set", TRUE)
        techniques ==
            get_related_obj(campaigns.env,
                            "campaign", "uses", "attack-pattern", FALSE)
        done == BridgeLoop(techniques.env, techniques_used_by_groups.ref,
                           campaigns.ref, techniques.ref, 1)
    IN [env |-> done, ref |-> techniques_used_by_groups.ref]

\* lines 1014-1045, by value
get_techniques_used_by_groups ==
    ValueOf(get_techniques_used_by_groups_obj(EmptyEnv))

\* lines 1072-1103, on the heap e
get_groups_using_techniques_obj(e) ==
    LET groups_using_techniques ==
            get_related_obj(e, "intrusion-set", "uses", "attack-pattern", TRUE)
        campaigns ==
            get_related_obj(groups_using_techniques.env,
                            "campaign", "uses", "attack-pattern", TRUE)
        groups ==
            get_related_obj(campaigns.env,
                            "campaign", "attributed-to", "intrusion-set", FALSE)
        done == BridgeLoop(groups.env, groups_using_techniques.ref,
                           campaigns.ref, groups.ref, 1)
    IN [env |-> done, ref |-> groups_using_techniques.ref]

\* lines 1072-1103, by value
get_groups_using_techniques ==
    ValueOf(get_groups_using_techniques_obj(EmptyEnv))

\* {**a, **b}: a new dict with the entries of a, then those of b, a key of
\* both keeping its place and taking the list of b
RECURSIVE PutAll(_, _)
PutAll(d, entries) ==
    IF entries = <<>> THEN d
    ELSE PutAll(Put(d, Head(entries).key, Head(entries).val), Tail(entries))

DictUnion(e, a, b) ==
    [env |-> [e EXCEPT !.dicts = Append(e.dicts,
                                        PutAll(PutAll(<<>>, e.dicts[a]), e.dicts[b]))],
     ref |-> Len(e.dicts) + 1]

\* lines 1206-1216, on the heap e
get_techniques_used_by_software_obj(e) ==
    LET techniques_by_tool ==
            get_related_obj(e, "tool", "uses", "attack-pattern", FALSE)
        techniques_by_malware ==
            get_related_obj(techniques_by_tool.env,
                            "malware", "uses", "attack-pattern", FALSE)
    IN DictUnion(techniques_by_malware.env,
                 techniques_by_tool.ref, techniques_by_malware.ref)

\* lines 1206-1216, by value
get_techniques_used_by_software ==
    ValueOf(get_techniques_used_by_software_obj(EmptyEnv))

\* lines 1242-1252, on the heap e
get_software_using_techniques_obj(e) ==
    LET tools_by_technique_id ==
            get_related_obj(e, "tool", "uses", "attack-pattern", TRUE)
        malware_by_technique_id ==
            get_related_obj(tools_by_technique_id.env,
                            "malware", "uses", "attack-pattern", TRUE)
    IN DictUnion(malware_by_technique_id.env,
                 tools_by_technique_id.ref, malware_by_technique_id.ref)

\* lines 1242-1252, by value
get_software_using_techniques ==
    ValueOf(get_software_using_techniques_obj(EmptyEnv))

\* lines 1282-1290
get_techniques_mitigated_by_mitigations ==
    get_related("course-of-action", "mitigates", "attack-pattern", FALSE)

\* lines 1316-1324
get_mitigations_mitigating_techniques ==
    get_related("course-of-action", "mitigates", "attack-pattern", TRUE)

\* a returned list, and the None of a function that returns nothing
ListResult(l) == [kind |-> "list", val |-> l]

NoneResult == [kind |-> "NoneType", val |-> <<>>]

\* the last line of a single-anchor accessor:
\* mapping[stix_id] if stix_id in mapping else []
WithId(mapping, stix_id) == ListResult(SeqOr(mapping, stix_id))

\* lines 770-793
get_software_used_by_group_with_id(stix_id) ==
    WithId(get_software_used_by_groups, stix_id)

\* lines 1218-1240
get_techniques_used_by_software_with_id(stix_id) ==
    WithId(get_techniques_used_by_software, stix_id)

\* lines 1254-1276
get_software_using_technique_with_id(stix_id) ==
    WithId(get_software_using_techniques, stix_id)

\* lines 1292-1314
get_techniques_mitigated_by_mitigation_with_id(stix_id) ==
    WithId(get_techniques_mitigated_by_mitigations, stix_id)

\* lines 1326-1346: the function has a docstring and no body
get_mitigations_mitigating_technique_with_id(stix_id) == NoneResult

(***************************************************************************)
(* Bundles.  A record of the bundle is live, revoked (revoked = TRUE),     *)
(* deprecated (x_mitre_deprecated = TRUE) or missing from the bundle.      *)
(* stix2 gives every parsed record the property revoked, FALSE by default; *)
(* x_mitre_deprecated is present only where the bundle sets it.            *)
(***************************************************************************)
Id(t, u) == [type |-> t, uuid |-> u]

Object(id, status) ==
    IF status = "deprecated"
    THEN [type |-> id.type, id |-> id, revoked |-> FALSE, x_mitre_deprecated |-> TRUE]
    ELSE [type |-> id.type, id |-> id, revoked |-> (status = "revoked")]

Relationship(n, shape, status) ==
    LET base == [type |-> "relationship", id |-> Id("relationship", ToString(n)),
                 relationship_type |-> shape[2],
                 source_ref |-> shape[1], target_ref |-> shape[3],
                 revoked |-> (status = "revoked")]
    IN IF status = "deprecated"
       THEN [f \in DOMAIN base \cup {"x_mitre_deprecated"} |->
                IF f = "x_mitre_deprecated" THEN TRUE ELSE base[f]]
       ELSE base

\* the bundle: the entities of `order` that are not missing, then the edges
Bundle(order, st, shapes, es) ==
    LET present == SelectSeq(order, LAMBDA id : st[id] # "missing")
    IN [i \in 1..Len(present) |-> Object(present[i], st[present[i]])]
       \o [i \in 1..Len(shapes) |-> Relationship(i, shapes[i], es[i])]

SeqsUpTo(S, n) == UNION {[1..k -> S] : k \in 0..n}

Range(f) == {f[i] : i \in DOMAIN f}

Flagged(f) == Cardinality({x \in DOMAIN f : f[x] # "live"})

G1 == Id("intrusion-set", "1")
W1 == Id("tool", "1")
W2 == Id("tool", "2")
M1 == Id("malware", "1")
Ca == Id("campaign", "1")
Cb == Id("campaign", "2")
T1 == Id("attack-pattern", "1")
T2 == Id("attack-pattern", "2")
K1 == Id("course-of-action", "1")

\* records that are not live in one bundle of the resolver family
MaxFlagged == 1
\* revoked entities in one bundle of the composite families
MaxRevoked == 1

ResolverOrder == <<G1, W1, W2>>

ResolverShapes ==
    {<<G1, "uses", W1>>, <<G1, "uses", W2>>, <<W1, "uses", G1>>,
     <<G1, "mitigates", W1>>}

\* the type and relationship tags handed to get_related: the tags of the
\* bundle and one tag outside the vocabulary
TypeTags == {"intrusion-set", "tool", "set"}

RelTags == {"uses", "mitigates", "bogus"}

(***************************************************************************)
(* The resolver specification: a loaded bundle and calls of get_related.   *)
(***************************************************************************)
NoRet == [op |-> "none", args |-> <<>>, kind |-> "none", val |-> <<>>]

Init ==
    /\ \E st \in [Range(ResolverOrder) -> {"live", "revoked", "deprecated", "missing"}],
          shapes \in SeqsUpTo(ResolverShapes, MaxRels) :
          \E es \in [DOMAIN shapes -> {"live", "revoked", "deprecated"}] :
             /\ Flagged(st) + Flagged(es) <= MaxFlagged
             /\ src = Bundle(ResolverOrder, st, shapes, es)
    /\ env = EmptyEnv
    /\ reg = <<>>
    /\ ret = NoRet
    /\ nmerge = 0

\* the caller holds one result at a time: it drops the result it holds
\* before it makes the next call
Release ==
    /\ ret # NoRet
    /\ ret' = NoRet
    /\ UNCHANGED <<src, env, reg, nmerge>>

CallGetRelated ==
    /\ ret = NoRet
    /\ \E source_type \in TypeTags, relationship_type \in RelTags,
          target_type \in TypeTags, reverse \in BOOLEAN :
          ret' = [op |-> "get_related",
                  args |-> <<source_type, relationship_type, target_type, reverse>>,
                  kind |-> "dict",
                  val |-> get_related(source_type, relationship_type,
                                      target_type, reverse)]
    /\ UNCHANGED <<src, env, reg, nmerge>>

Next == CallGetRelated \/ Release

Spec == Init /\ [][Next]_vars

(***************************************************************************)
(* The composite specification: a loaded bundle of groups, software and    *)
(* campaigns, or of software, techniques and mitigations, and calls of the *)
(* composite queries and of their single-anchor accessors.                 *)
(***************************************************************************)
SoftwareOrder == <<G1, W1, M1, Ca, Cb>>

SoftwareShapes ==
    {<<G1, "uses", W1>>, <<G1, "uses", M1>>,
     <<Ca, "attributed-to", G1>>, <<Cb, "attributed-to", G1>>,
     <<Ca, "uses", M1>>, <<Cb, "uses", W1>>}

TechniqueOrder == <<W1, M1, T1, T2, K1>>

TechniqueShapes ==
    {<<W1, "uses", T1>>, <<M1, "uses", T1>>, <<W1, "uses", T2>>,
     <<K1, "mitigates", T1>>}

\* the sequences of distinct elements of S, of length at most n
DistinctSeqsUpTo(S, n) ==
    {q \in SeqsUpTo(S, n) : \A i \in DOMAIN q, j \in DOMAIN q : q[i] = q[j] => i = j}

\* the bundles of one family: at most MaxRevoked entities revoked, the
\* edges live
FamilyBundles(order, shapes) ==
    {Bundle(order, st, q, [i \in DOMAIN q |-> "live"]) :
        st \in {f \in [Range(order) -> {"live", "revoked"}] : Flagged(f) <= MaxRevoked},
        q \in DistinctSeqsUpTo(shapes, MaxBundle)}

\* the identifiers handed to a single-anchor accessor: one of the type of
\* its anchors and one of another type
StixIds(anchor, other) == {anchor, other}

InitComposite ==
    /\ src \in FamilyBundles(SoftwareOrder, SoftwareShapes)
                  \cup FamilyBundles(TechniqueOrder, TechniqueShapes)
    /\ env = EmptyEnv
    /\ reg = <<>>
    /\ ret = NoRet
    /\ nmerge = 0

\* the caller receives the mapping of a full-mapping query
ReturnDict(name, mapping) ==
    /\ ret = NoRet
    /\ ret' = [op |-> name, args |-> <<>>, kind |-> "dict", val |-> mapping]
    /\ UNCHANGED <<src, env, reg, nmerge>>

\* the caller receives the result of a single-anchor accessor
ReturnWithId(name, stix_id, result) ==
    /\ ret = NoRet
    /\ ret' = [op |-> name, args |-> <<stix_id>>,
               kind |-> result.kind, val |-> result.val]
    /\ UNCHANGED <<src, env, reg, nmerge>>

CallSoftwareUsedByGroups ==
    ReturnDict("get_software_used_by_groups", get_software_used_by_groups)

CallTechniquesUsedBySoftware ==
    ReturnDict("get_techniques_used_by_software", get_techniques_used_by_software)

CallSoftwareUsingTechniques ==
    ReturnDict("get_software_using_techniques", get_software_using_techniques)

CallTechniquesMitigatedByMitigations ==
    ReturnDict("get_techniques_mitigated_by_mitigations",
               get_techniques_mitigated_by_mitigations)

CallMitigationsMitigatingTechniques ==
    ReturnDict("get_mitigations_mitigating_techniques",
               get_mitigations_mitigating_techniques)

CallSoftwareUsedByGroupWithId ==
    \E stix_id \in StixIds(G1, Ca) :
       ReturnWithId("get_software_used_by_group_with_id", stix_id,
                    get_software_used_by_group_with_id(stix_id))

CallTechniquesUsedBySoftwareWithId ==
    \E stix_id \in StixIds(W1, T1) :
       ReturnWithId("get_techniques_used_by_software_with_id", stix_id,
                    get_techniques_used_by_software_with_id(stix_id))

CallSoftwareUsingTechniqueWithId ==
    \E stix_id \in StixIds(T1, W1) :
       ReturnWithId("get_software_using_technique_with_id", stix_id,
                    get_software_using_technique_with_id(stix_id))

CallTechniquesMitigatedByMitigationWithId ==
    \E stix_id \in StixIds(K1, T1) :
       ReturnWithId("get_techniques_mitigated_by_mitigation_with_id", stix_id,
                    get_techniques_mitigated_by_mitigation_with_id(stix_id))

CallMitigationsMitigatingTechniqueWithId ==
    \E stix_id \in StixIds(T1, K1) :
       ReturnWithId("get_mitigations_mitigating_technique_with_id", stix_id,
                    get_mitigations_mitigating_technique_with_id(stix_id))

NextComposite ==
    \/ CallSoftwareUsedByGroups
    \/ CallTechniquesUsedBySoftware
    \/ CallSoftwareUsingTechniques
    \/ CallTechniquesMitigatedByMitigations
    \/ CallMitigationsMitigatingTechniques
    \/ CallSoftwareUsedByGroupWithId
    \/ CallTechniquesUsedBySoftwareWithId
    \/ CallSoftwareUsingTechniqueWithId
    \/ CallTechniquesMitigatedByMitigationWithId
    \/ CallMitigationsMitigatingTechniqueWithId
    \/ Release

SpecComposite == InitComposite /\ [][NextComposite]_vars

(***************************************************************************)
(* The merge specification: three mappings a, b and c held by the caller,  *)
(* and calls of merge on them.  The mappings are dict objects on the heap  *)
(* env; reg gives the address of each.                                     *)
(***************************************************************************)
\* two {object, relationship} pairs as get_related returns them
P1 == [object |-> Object(W1, "live"),
       relationship |-> Relationship(1, <<G1, "uses", W1>>, "live")]

P2 == [object |-> Object(W2, "live"),
       relationship |-> Relationship(2, <<G1, "uses", W2>>, "live")]

\* the mappings with keys among `keys` (a sequence of identifiers, in this
\* order) and sequences of at most MaxLen pairs
RECURSIVE MapsOver(_)
MapsOver(keys) ==
    IF keys = <<>> THEN {<<>>}
    ELSE LET rest == MapsOver(Tail(keys))
         IN rest \cup {<<[key |-> Head(keys), val |-> l]>> \o m :
                          l \in SeqsUpTo({P1, P2}, MaxLen), m \in rest}

\* the heap that holds the three mappings, each list an object of its own
HeapOf(a, b, c) ==
    AllocDict(AllocDict(AllocDict(EmptyEnv, a).env, b).env, c).env

InitMerge ==
    /\ src = <<>>
    /\ \E a \in MapsOver(<<G1, Ca>>), b \in MapsOver(<<G1>>), c \in MapsOver(<<G1>>) :
          env = HeapOf(a, b, c)
    /\ reg = [a |-> 1, b |-> 2, c |-> 3]
    /\ ret = NoRet
    /\ nmerge = 0

\* map_a = merge(x, y) on two of the caller's mappings; ret keeps the values
\* the two mappings had before the call
CallMerge ==
    /\ nmerge < MaxMerges
    /\ \E x \in DOMAIN reg, y \in DOMAIN reg :
          /\ x # y
          /\ LET r == merge(env, reg[x], reg[y])
             IN /\ env' = r.env
                /\ ret' = [op |-> "merge", args |-> <<x, y>>, kind |-> "dict",
                           val |-> r.ref,
                           pre_a |-> Deref(env, reg[x]),
                           pre_b |-> Deref(env, reg[y])]
    /\ nmerge' = nmerge + 1
    /\ UNCHANGED <<src, reg>>

\* an independent copy of the caller's mapping x, alone on a heap
CopyOf(x) == Deref(env, reg[x])

\* merge(merge(a, b), c) on independent copies of the three mappings
MergeLeft ==
    LET h == HeapOf(CopyOf("a"), CopyOf("b"), CopyOf("c"))
        ab == merge(h, 1, 2)
        abc == merge(ab.env, ab.ref, 3)
    IN Deref(abc.env, abc.ref)

\* merge(a, merge(b, c)) on independent copies of the three mappings
MergeRight ==
    LET h == HeapOf(CopyOf("a"), CopyOf("b"), CopyOf("c"))
        bc == merge(h, 2, 3)
        abc == merge(bc.env, 1, bc.ref)
    IN Deref(abc.env, abc.ref)

\* the caller merges copies of its three mappings in the two groupings
CallMergeBothWays ==
    /\ ret = NoRet
    /\ ret' = [op |-> "merge_both_ways", args |-> <<>>, kind |-> "dict",
               val |-> <<>>, left |-> MergeLeft, right |-> MergeRight]
    /\ UNCHANGED <<src, env, reg, nmerge>>

NextMerge == CallMerge \/ CallMergeBothWays

SpecMerge == InitMerge /\ [][NextMerge]_vars

(***************************************************************************)
(* The merge sequence specification: the caller holds three mappings a, b  *)
(* and c as in the merge specification and calls merge on them, up to      *)
(* MaxMerges times.  ret keeps, besides the last call, the values the      *)
(* three mappings had at the start (first) and the mappings that have been *)
(* passed as map_a so far (as_map_a).                                      *)
(***************************************************************************)
\* the mappings the caller starts with: no key, or the key G1 with no pair
\* or one pair
SmallMaps ==
    {<<>>} \cup {<<[key |-> G1, val |-> l]>> : l \in {<<>>, <<P1>>, <<P2>>}}

InitMergeSequence ==
    /\ src = <<>>
    /\ \E a \in SmallMaps, b \in SmallMaps, c \in SmallMaps : env = HeapOf(a, b, c)
    /\ reg = [a |-> 1, b |-> 2, c |-> 3]
    /\ ret = NoRet
    /\ nmerge = 0

\* merge(x, y) on two of the caller's mappings
CallMergeInSequence ==
    /\ nmerge < MaxMerges
    /\ \E x \in DOMAIN reg, y \in DOMAIN reg :
          /\ x # y
          /\ LET r == merge(env, reg[x], reg[y])
             IN /\ env' = r.env
                /\ ret' = [op |-> "merge", args |-> <<x, y>>, kind |-> "dict",
                           val |-> r.ref,
                           first |-> IF ret = NoRet
                                     THEN [z \in DOMAIN reg |-> Deref(env, reg[z])]
                                     ELSE ret.first,
                           as_map_a |-> IF ret = NoRet THEN {x}
                                        ELSE ret.as_map_a \cup {x}]
    /\ nmerge' = nmerge + 1
    /\ UNCHANGED <<src, reg>>

NextMergeSequence == CallMergeInSequence

SpecMergeSequence == InitMergeSequence /\ [][NextMergeSequence]_vars

(***************************************************************************)
(* The filter specification: the caller holds a list xs of records, each   *)
(* flag of a record absent, false or true, and calls                       *)
(* remove_revoked_deprecated(xs).  xs is the list object reg.xs of env.    *)
(***************************************************************************)
\* length of the list handed to remove_revoked_deprecated
MaxList == 3

FlagStates == {"absent", "false", "true"}

\* a record with identifier n and the two flags as given
FlagRecord(n, revoked, deprecated) ==
    [f \in {"id"} \cup (IF revoked = "absent" THEN {} ELSE {"revoked"})
                  \cup (IF deprecated = "absent" THEN {} ELSE {"x_mitre_deprecated"}) |->
        CASE f = "id" -> n
          [] f = "revoked" -> (revoked = "true")
          [] f = "x_mitre_deprecated" -> (deprecated = "true")]

FlagRecords ==
    {FlagRecord(n, r, d) : n \in {"1", "2"}, r \in FlagStates, d \in FlagStates}

InitFilter ==
    /\ src = <<>>
    /\ \E xs \in SeqsUpTo(FlagRecords, MaxList) :
          env = [lists |-> <<xs>>, dicts |-> <<>>]
    /\ reg = [xs |-> 1]
    /\ ret = NoRet
    /\ nmerge = 0

\* the caller receives a new list; the code assigns to nothing else
CallRemoveRevokedDeprecated ==
    /\ ret = NoRet
    /\ ret' = [op |-> "remove_revoked_deprecated", args |-> <<reg.xs>>,
               kind |-> "list",
               val |-> remove_revoked_deprecated(env.lists[reg.xs]),
               pre |-> env.lists[reg.xs]]
    /\ UNCHANGED <<src, env, reg, nmerge>>

NextFilter == CallRemoveRevokedDeprecated

SpecFilter == InitFilter /\ [][NextFilter]_vars

(***************************************************************************)
(* The accessor specification: a loaded bundle of entities of the ten      *)
(* types, each live, revoked or deprecated, and calls of the per-type      *)
(* accessors with and without the filter flag.                             *)
(***************************************************************************)
\* entities stored in a bundle of the accessor family
MaxStored == 2

X1 == Id("x-mitre-matrix", "1")
A1 == Id("x-mitre-tactic", "1")
D1 == Id("x-mitre-data-source", "1")
D2 == Id("x-mitre-data-component", "1")

AccessorOrder == <<X1, A1, T1, T2, K1, G1, M1, W1, Ca, D1, D2>>

\* the statuses of the entities of `order`: those of `stored` as st gives
\* them, the others missing
StatusOf(order, stored, st) ==
    [id \in Range(order) |-> IF id \in stored THEN st[id] ELSE "missing"]

InitAccessors ==
    /\ \E stored \in {S \in SUBSET Range(AccessorOrder) : Cardinality(S) <= MaxStored} :
          \E st \in [stored -> {"live", "revoked", "deprecated"}] :
             src = Bundle(AccessorOrder, StatusOf(AccessorOrder, stored, st),
                          <<>>, <<>>)
    /\ env = EmptyEnv
    /\ reg = <<>>
    /\ ret = NoRet
    /\ nmerge = 0

\* the caller receives the list of an accessor
ReturnList(name, remove_flag, list) ==
    /\ ret = NoRet
    /\ ret' = [op |-> name, args |-> <<remove_flag>>, kind |-> "list", val |-> list]
    /\ UNCHANGED <<src, env, reg, nmerge>>

CallGetMatrices ==
    \E remove_flag \in BOOLEAN :
       ReturnList("get_matrices", remove_flag, get_matrices(remove_flag))

CallGetTactics ==
    \E remove_flag \in BOOLEAN :
       ReturnList("get_tactics", remove_flag, get_tactics(remove_flag))

CallGetTechniques ==
    \E remove_flag \in BOOLEAN :
       ReturnList("get_techniques", remove_flag, get_techniques(remove_flag))

CallGetMitigations ==
    \E remove_flag \in BOOLEAN :
       ReturnList("get_mitigations", remove_flag, get_mitigations(remove_flag))

CallGetGroups ==
    \E remove_flag \in BOOLEAN :
       ReturnList("get_groups", remove_flag, get_groups(remove_flag))

CallGetSoftware ==
    \E remove_flag \in BOOLEAN :
       ReturnList("get_software", remove_flag, get_software(remove_flag))

CallGetCampaigns ==
    \E remove_flag \in BOOLEAN :
       ReturnList("get_campaigns", remove_flag, get_campaigns(remove_flag))

CallGetDatasources ==
    \E remove_flag \in BOOLEAN :
       ReturnList("get_datasources", remove_flag, get_datasources(remove_flag))

CallGetDatacomponents ==
    \E remove_flag \in BOOLEAN :
       ReturnList("get_datacomponents", remove_flag, get_datacomponents(remove_flag))

NextAccessors ==
    \/ CallGetMatrices
    \/ CallGetTactics
    \/ CallGetTechniques
    \/ CallGetMitigations
    \/ CallGetGroups
    \/ CallGetSoftware
    \/ CallGetCampaigns
    \/ CallGetDatasources
    \/ CallGetDatacomponents

SpecAccessors == InitAccessors /\ [][NextAccessors]_vars

(***************************************************************************)
(* The lookup specification: a loaded bundle of entities with names, with  *)
(* external references, with aliases, with descriptions or with kill chain *)
(* phases, and calls of the lookups.                                       *)
(***************************************************************************)
\* entities stored in a bundle of the lookup families
MaxEntities == 3

\* the record base with the fields of extra added
With(base, extra) ==
    [f \in DOMAIN base \cup DOMAIN extra |->
        IF f \in DOMAIN extra THEN extra[f] ELSE base[f]]

\* the bundles of at most MaxEntities entities of `order`, each with its
\* status and fields as one of `variants` gives them
EntityBundles(order, variants) ==
    {LET present == SelectSeq(order, LAMBDA id : id \in stored)
     IN [i \in 1..Len(present) |->
            With(Object(present[i], v[present[i]].status), v[present[i]].fields)] :
        stored \in {S \in SUBSET Range(order) : Cardinality(S) <= MaxEntities},
        v \in [Range(order) -> variants]}

Variant(status, fields) == [status |-> status, fields |-> fields]

G2 == Id("intrusion-set", "2")
T3 == Id("attack-pattern", "3")

Names == {"a", "b"}

NameVariants == {Variant("live", [name |-> n]) : n \in Names}

Reference(source_name, external_id) ==
    [source_name |-> source_name, external_id |-> external_id]

AttackIds == {"E1", "E2"}

ReferenceVariants ==
    {Variant("live", [name |-> "a"])}
    \cup {Variant("live", [name |-> "a", external_references |-> refs]) :
             refs \in {<<Reference("mitre-attack", "E1")>>,
                       <<Reference("capec", "E1")>>,
                       <<Reference("mitre-attack", "E2"), Reference("capec", "E1")>>}}

Aliases == {"x", "y"}

AliasVariants ==
    {Variant("live", [name |-> "a"])}
    \cup {Variant("live", [name |-> "a", aliases |-> l, x_mitre_aliases |-> l]) :
             l \in {<<"x">>, <<"y", "x">>}}

\* texts as sequences of characters
Descriptions == {<<"A", "b">>, <<"b">>}

ContentVariants ==
    {Variant("live", [name |-> "a"])}
    \cup {Variant(status, [name |-> "a", description |-> d]) :
             status \in {"live", "revoked", "deprecated"}, d \in Descriptions}

Phase(kill_chain_name, phase_name) ==
    [kill_chain_name |-> kill_chain_name, phase_name |-> phase_name]

PhaseVariants ==
    {Variant("live", [name |-> "a"])}
    \cup {Variant(status, [name |-> "a", kill_chain_phases |-> phases]) :
             status \in {"live", "revoked"},
             phases \in {<<Phase("mitre-attack", "persistence")>>,
                         <<Phase("mitre-mobile-attack", "persistence")>>,
                         <<Phase("mitre-attack", "impact"),
                           Phase("mitre-mobile-attack", "persistence")>>}}

\* the first reference in the namespace, outside it, or without an
\* external_id, and the reference of the namespace at a later position
AttackIdVariants ==
    {Variant("live", [name |-> "a", external_references |-> refs]) :
        refs \in {<<>>,
                  <<Reference("mitre-attack", "")>>,
                  <<Reference("capec", "E1"), Reference("mitre-attack", "E2")>>,
                  <<Reference("mitre-attack", "E2"), Reference("mitre-attack", "E1")>>}}

InitLookup ==
    /\ src \in EntityBundles(<<T1, T2, W1>>, NameVariants)
               \cup EntityBundles(<<T1, W1>>, AttackIdVariants)
               \cup EntityBundles(<<T1, T2, W1>>, ReferenceVariants)
               \cup EntityBundles(<<G1, G2, Ca, W1, M1>>, AliasVariants)
               \cup EntityBundles(<<T1, T2, T3, W1>>, ContentVariants)
               \cup EntityBundles(<<T1, T2>>, PhaseVariants)
    /\ env = EmptyEnv
    /\ reg = <<>>
    /\ ret = NoRet
    /\ nmerge = 0

\* the caller receives the value or the exception of a lookup
ReturnLookup(name, args, result) ==
    /\ ret = NoRet
    /\ ret' = [op |-> name, args |-> args, kind |-> result.kind,
               val |-> result.val, exception |-> result.exception,
               queries |-> result.queries]
    /\ UNCHANGED <<src, env, reg, nmerge>>

\* the type tags handed to a lookup: two of the vocabulary and one outside it
ObjectTypes == {"attack-pattern", "tool", "bogus"}

CallGetObjectByAttackId ==
    \E attack_id \in AttackIds, object_type \in ObjectTypes :
       ReturnLookup("get_object_by_attack_id", <<attack_id, object_type>>,
                    get_object_by_attack_id(attack_id, object_type))

CallGetObjectByName ==
    \E name \in Names, object_type \in ObjectTypes :
       ReturnLookup("get_object_by_name", <<name, object_type>>,
                    get_object_by_name(name, object_type))

CallGetGroupByAlias ==
    \E alias \in Aliases :
       ReturnLookup("get_group_by_alias", <<alias>>, get_group_by_alias(alias))

CallGetCampaignByAlias ==
    \E alias \in Aliases :
       ReturnLookup("get_campaign_by_alias", <<alias>>, get_campaign_by_alias(alias))

CallGetSoftwareByAlias ==
    \E alias \in Aliases :
       ReturnLookup("get_software_by_alias", <<alias>>, get_software_by_alias(alias))

Contents == {<<"a", "B">>, <<"b">>}

CallGetObjectsByContent ==
    \E content \in Contents, object_type \in {None, "", "attack-pattern", "bogus"},
       remove_flag \in BOOLEAN, iterated \in StoreIteration :
       ReturnLookup("get_objects_by_content", <<content, object_type, remove_flag>>,
                    get_objects_by_content(content, object_type, remove_flag, iterated))

CallGetTechniquesByTactic ==
    \E tactic_shortname \in {"persistence", "impact"},
       domain \in {"enterprise-attack", "mobile-attack", "attack"},
       remove_flag \in BOOLEAN :
       ReturnLookup("get_techniques_by_tactic",
                    <<tactic_shortname, domain, remove_flag>>,
                    get_techniques_by_tactic(tactic_shortname, domain, remove_flag))

CallGetAttackId ==
    \E stix_id \in {T1, T2, W1} :
       ReturnLookup("get_attack_id", <<stix_id>>, get_attack_id(stix_id))

NextLookup ==
    \/ CallGetObjectByAttackId
    \/ CallGetAttackId
    \/ CallGetObjectByName
    \/ CallGetGroupByAlias
    \/ CallGetCampaignByAlias
    \/ CallGetSoftwareByAlias
    \/ CallGetObjectsByContent
    \/ CallGetTechniquesByTactic

SpecLookup == InitLookup /\ [][NextLookup]_vars

(***************************************************************************)
(* The matrix specification: a loaded bundle of tactics and matrices, each *)
(* matrix with a name and a list tactic_refs, and calls of                 *)
(* get_tactics_by_matrix.                                                  *)
(***************************************************************************)
\* length of the tactic_refs of a matrix
MaxRefs == 2

A2 == Id("x-mitre-tactic", "2")
X2 == Id("x-mitre-matrix", "2")

MatrixNames == {"m", "n"}

\* the records an entity of the bundle can be: none (missing), or one
TacticRecords(id) ==
    {<<>>} \cup {<<Object(id, status)>> : status \in {"live", "revoked"}}

MatrixRecords(id) ==
    {<<>>} \cup {<<With(Object(id, "live"), [name |-> name, tactic_refs |-> refs])>> :
                    name \in MatrixNames, refs \in SeqsUpTo({A1, A2}, MaxRefs)}

InitMatrix ==
    /\ \E a1 \in TacticRecords(A1), a2 \in TacticRecords(A2),
          x1 \in MatrixRecords(X1), x2 \in MatrixRecords(X2) :
          src = a1 \o a2 \o x1 \o x2
    /\ env = EmptyEnv
    /\ reg = <<>>
    /\ ret = NoRet
    /\ nmerge = 0

CallGetTacticsByMatrix ==
    /\ ret = NoRet
    /\ ret' = [op |-> "get_tactics_by_matrix", args |-> <<>>, kind |-> "dict",
               val |-> get_tactics_by_matrix]
    /\ UNCHANGED <<src, env, reg, nmerge>>

NextMatrix == CallGetTacticsByMatrix

SpecMatrix == InitMatrix /\ [][NextMatrix]_vars

(***************************************************************************)
(* The group software specification: a loaded bundle of a group, its       *)
(* software and their techniques, and calls of                             *)
(* get_techniques_used_by_group_software.                                  *)
(***************************************************************************)
GroupSoftwareOrder == <<T1, G1, W1, M1, T2>>

GroupSoftwareShapes ==
    {<<G1, "uses", W1>>, <<G1, "uses", M1>>, <<W1, "uses", T1>>,
     <<M1, "uses", T1>>, <<M1, "uses", T2>>}

InitGroupSoftware ==
    /\ \E st \in [Range(GroupSoftwareOrder) -> {"live", "revoked"}],
          shapes \in DistinctSeqsUpTo(GroupSoftwareShapes, MaxBundle) :
          \E es \in [DOMAIN shapes -> {"live", "revoked"}] :
             /\ Flagged(st) + Flagged(es) <= MaxFlagged
             /\ src = Bundle(GroupSoftwareOrder, st, shapes, es)
    /\ env = EmptyEnv
    /\ reg = <<>>
    /\ ret = NoRet
    /\ nmerge = 0

CallGetTechniquesUsedByGroupSoftware ==
    /\ ret = NoRet
    /\ \E group_stix_id \in {G1, M1} :
          ret' = [op |-> "get_techniques_used_by_group_software",
                  args |-> <<group_stix_id>>, kind |-> "list",
                  val |-> get_techniques_used_by_group_software(group_stix_id)]
    /\ UNCHANGED <<src, env, reg, nmerge>>

NextGroupSoftware == CallGetTechniquesUsedByGroupSoftware

SpecGroupSoftware == InitGroupSoftware /\ [][NextGroupSoftware]_vars

(***************************************************************************)
(* The repeat specification: one process whose heap env lasts from call to *)
(* call.  The caller makes composite queries one after the other on an     *)
(* unchanged store and keeps every mapping it receives: reg lists, for     *)
(* each call, the query, the address of the mapping returned and the value *)
(* the mapping had when it was returned.                                   *)
(***************************************************************************)
\* composite queries in one run of the repeat specification
MaxCalls == 2

\* the edges of seq that are in chosen, in the order of seq
Chosen(seq, chosen) == SelectSeq(seq, LAMBDA s : s \in chosen)

AllLive(order) == [id \in Range(order) |-> "live"]

\* the bundles with the entities of `order`, all live, and some of the
\* edges of `shapes`, all live, in the order of `shapes`
LiveBundles(order, shapes) ==
    {LET q == Chosen(shapes, chosen)
     IN Bundle(order, AllLive(order), q, [i \in DOMAIN q |-> "live"]) :
        chosen \in SUBSET Range(shapes)}

RepeatSoftwareShapes ==
    <<<<G1, "uses", W1>>, <<G1, "uses", M1>>, <<Ca, "attributed-to", G1>>,
      <<Cb, "attributed-to", G1>>, <<Ca, "uses", M1>>, <<Cb, "uses", W1>>>>

RepeatTechniqueShapes ==
    <<<<W1, "uses", T1>>, <<M1, "uses", T1>>, <<W1, "uses", T2>>,
      <<K1, "mitigates", T1>>>>

InitRepeat ==
    /\ src \in LiveBundles(SoftwareOrder, RepeatSoftwareShapes)
               \cup LiveBundles(TechniqueOrder, RepeatTechniqueShapes)
    /\ env = EmptyEnv
    /\ reg = <<>>
    /\ ret = NoRet
    /\ nmerge = 0

\* the caller receives the mapping at r.ref of the heap r.env and keeps it
ReturnOnHeap(name, r) ==
    /\ nmerge < MaxCalls
    /\ env' = r.env
    /\ reg' = Append(reg, [op |-> name, ref |-> r.ref, val |-> ValueOf(r)])
    /\ ret' = [op |-> name, args |-> <<>>, kind |-> "dict", val |-> ValueOf(r)]
    /\ nmerge' = nmerge + 1
    /\ UNCHANGED src

RepeatSoftwareUsedByGroups ==
    ReturnOnHeap("get_software_used_by_groups", get_software_used_by_groups_obj(env))

RepeatTechniquesUsedBySoftware ==
    ReturnOnHeap("get_techniques_used_by_software",
                 get_techniques_used_by_software_obj(env))

RepeatSoftwareUsingTechniques ==
    ReturnOnHeap("get_software_using_techniques",
                 get_software_using_techniques_obj(env))

\* lines 1282-1290: the mapping get_related built is returned as it is
RepeatTechniquesMitigatedByMitigations ==
    ReturnOnHeap("get_techniques_mitigated_by_mitigations",
                 get_related_obj(env, "course-of-action", "mitigates",
                                 "attack-pattern", FALSE))

\* lines 1316-1324
RepeatMitigationsMitigatingTechniques ==
    ReturnOnHeap("get_mitigations_mitigating_techniques",
                 get_related_obj(env, "course-of-action", "mitigates",
                                 "attack-pattern", TRUE))

NextRepeat ==
    \/ RepeatSoftwareUsedByGroups
    \/ RepeatTechniquesUsedBySoftware
    \/ RepeatSoftwareUsingTechniques
    \/ RepeatTechniquesMitigatedByMitigations
    \/ RepeatMitigationsMitigatingTechniques

SpecRepeat == InitRepeat /\ [][NextRepeat]_vars

(***************************************************************************)
(* The readers specification: several threads of one process, each running *)
(* one query on the same MitreAttackData object.  The store src is read    *)
(* only and a store query is atomic.  The heap env is the heap of the      *)
(* process; reg[r] is the frame of reader r, its position pc and the       *)
(* addresses its local variables hold; ret[r] is what its query returned.  *)
(* A step is one statement of get_software_used_by_groups (a call of       *)
(* get_related or merge, one turn of the loop over the groups), or one     *)
(* half of get_related called on its own: the statements up to the end of  *)
(* the loop that fills id_to_related, and those that build the output.     *)
(***************************************************************************)
Readers == {"r1", "r2"}

\* the arguments of get_related called on its own
ResolverArgs ==
    {<<"intrusion-set", "uses", "tool", FALSE>>,
     <<"campaign", "attributed-to", "intrusion-set", TRUE>>}

\* a group using a tool and a malware, and a campaign attributed to the
\* group using the malware
ReaderShapes ==
    <<<<G1, "uses", W1>>, <<G1, "uses", M1>>, <<Ca, "attributed-to", G1>>,
      <<Ca, "uses", M1>>>>

IdleFrame ==
    [op |-> "idle", pc |-> 0, args |-> <<>>, i |-> 1,
     tools_used_by_group |-> 0, malware_used_by_group |-> 0,
     software_used_by_group |-> 0,
     tools_used_by_campaign |-> 0, malware_used_by_campaign |-> 0,
     software_used_by_campaign |-> 0,
     campaigns |-> 0, id_to_related |-> 0, output |-> 0]

InitReaders ==
    /\ src \in LiveBundles(SoftwareOrder, ReaderShapes)
    /\ env = EmptyEnv
    /\ reg = [r \in Readers |-> IdleFrame]
    /\ ret = [r \in Readers |-> NoRet]
    /\ nmerge = 0

\* reader r calls get_software_used_by_groups
ReaderCallsComposite ==
    \E r \in Readers :
       /\ reg[r].op = "idle"
       /\ reg' = [reg EXCEPT ![r] = [IdleFrame EXCEPT
                                        !.op = "get_software_used_by_groups",
                                        !.pc = 1]]
       /\ UNCHANGED <<src, env, ret, nmerge>>

\* reader r calls get_related
ReaderCallsResolver ==
    \E r \in Readers, args \in ResolverArgs :
       /\ reg[r].op = "idle"
       /\ reg' = [reg EXCEPT ![r] = [IdleFrame EXCEPT
                                        !.op = "get_related",
                                        !.pc = 1, !.args = args]]
       /\ UNCHANGED <<src, env, ret, nmerge>>

\* lines 741-751: the calls of get_related in get_software_used_by_groups,
\* by position: the local variable assigned and the arguments
GetRelatedCalls ==
    [pc \in {1, 2, 4, 5, 7} |->
        CASE pc = 1 -> [local |-> "tools_used_by_group",
                        args |-> <<"intrusion-set", "uses", "tool", FALSE>>]
          [] pc = 2 -> [local |-> "malware_used_by_group",
                        args |-> <<"intrusion-set", "uses", "malware", FALSE>>]
          [] pc = 4 -> [local |-> "tools_used_by_campaign",
                        args |-> <<"campaign", "uses", "tool", FALSE>>]
          [] pc = 5 -> [local |-> "malware_used_by_campaign",
                        args |-> <<"campaign", "uses", "malware", FALSE>>]
          [] pc = 7 -> [local |-> "campaigns",
                        args |-> <<"campaign", "attributed-to",
                                   "intrusion-set", TRUE>>]]

\* one of the five calls of get_related, its result assigned to a local
ReaderGetRelated ==
    \E r \in Readers :
       /\ reg[r].op = "get_software_used_by_groups"
       /\ reg[r].pc \in DOMAIN GetRelatedCalls
       /\ LET call == GetRelatedCalls[reg[r].pc]
              res == get_related_obj(env, call.args[1], call.args[2],
                                     call.args[3], call.args[4])
          IN /\ env' = res.env
             /\ reg' = [reg EXCEPT ![r] = [@ EXCEPT ![call.local] = res.ref,
                                                    !.pc = @ + 1]]
       /\ UNCHANGED <<src, ret, nmerge>>

\* lines 743 and 748: the two calls of merge, on the locals of the reader
ReaderMerge ==
    \E r \in Readers :
       /\ reg[r].op = "get_software_used_by_groups"
       /\ reg[r].pc \in {3, 6}
       /\ LET map_a == IF reg[r].pc = 3 THEN reg[r].tools_used_by_group
                       ELSE reg[r].tools_used_by_campaign
              map_b == IF reg[r].pc = 3 THEN reg[r].malware_used_by_group
                       ELSE reg[r].malware_used_by_campaign
              local == IF reg[r].pc = 3 THEN "software_used_by_group"
                       ELSE "software_used_by_campaign"
              res == merge(env, map_a, map_b)
          IN /\ env' = res.env
             /\ reg' = [reg EXCEPT ![r] = [@ EXCEPT ![local] = res.ref,
                                                    !.pc = @ + 1]]
       /\ UNCHANGED <<src, ret, nmerge>>

\* lines 755-767: one turn of the loop over the groups with campaigns
ReaderBridge ==
    \E r \in Readers :
       /\ reg[r].op = "get_software_used_by_groups"
       /\ reg[r].pc = 8
       /\ reg[r].i <= Len(env.dicts[reg[r].campaigns])
       /\ env' = BridgeStep(env, reg[r].software_used_by_group,
                            reg[r].campaigns,
                            reg[r].software_used_by_campaign, reg[r].i)
       /\ reg' = [reg EXCEPT ![r].i = @ + 1]
       /\ UNCHANGED <<src, ret, nmerge>>

\* reader r receives the mapping at `ref`
ReaderReceives(r, ref) ==
    /\ ret' = [ret EXCEPT ![r] = [op |-> reg[r].op, args |-> reg[r].args,
                                  kind |-> "dict", ref |-> ref,
                                  val |-> Deref(env, ref)]]
    /\ reg' = [reg EXCEPT ![r].op = "done"]
    /\ UNCHANGED <<src, env, nmerge>>

\* line 768, after the last turn of the loop
ReaderReturns ==
    \E r \in Readers :
       /\ reg[r].op = "get_software_used_by_groups"
       /\ reg[r].pc = 8
       /\ reg[r].i > Len(env.dicts[reg[r].campaigns])
       /\ ReaderReceives(r, reg[r].software_used_by_group)

\* lines 636-672 of get_related called on its own: the relationships are
\* queried and id_to_related is filled
ResolverBuildsIdToRelated ==
    \E r \in Readers :
       /\ reg[r].op = "get_related"
       /\ reg[r].pc = 1
       /\ LET relationships ==
                  remove_revoked_deprecated(
                      Query(<<Filter("type", "relationship"),
                              Filter("relationship_type", reg[r].args[2]),
                              Filter("revoked", FALSE)>>))
              res == AllocDict(env,
                               BuildIdToRelated(relationships, reg[r].args[1],
                                                reg[r].args[3], reg[r].args[4],
                                                <<>>))
          IN /\ env' = res.env
             /\ reg' = [reg EXCEPT ![r].id_to_related = res.ref, ![r].pc = 2]
       /\ UNCHANGED <<src, ret, nmerge>>

\* lines 674-701: the related objects are queried and the output is built
\* from the id_to_related of the reader
ResolverBuildsOutput ==
    \E r \in Readers :
       /\ reg[r].op = "get_related"
       /\ reg[r].pc = 2
       /\ LET id_to_target ==
                  IdToTarget(RelatedObjects(reg[r].args[1], reg[r].args[3],
                                            reg[r].args[4]))
              res == AllocDict(env, Output(Deref(env, reg[r].id_to_related),
                                           id_to_target))
          IN /\ env' = res.env
             /\ reg' = [reg EXCEPT ![r].output = res.ref, ![r].pc = 3]
       /\ UNCHANGED <<src, ret, nmerge>>

\* line 703
ResolverReturns ==
    \E r \in Readers :
       /\ reg[r].op = "get_related"
       /\ reg[r].pc = 3
       /\ ReaderReceives(r, reg[r].output)

NextReaders ==
    \/ ReaderCallsComposite
    \/ ReaderCallsResolver
    \/ ReaderGetRelated
    \/ ReaderMerge
    \/ ReaderBridge
    \/ ReaderReturns
    \/ ResolverBuildsIdToRelated
    \/ ResolverBuildsOutput
    \/ ResolverReturns

SpecReaders == InitReaders /\ [][NextReaders]_vars

(***************************************************************************)
(* The bridge specification: a loaded bundle of groups, campaigns and      *)
(* software, or of groups, campaigns and techniques, and calls of the four *)
(* composite queries that go from groups through their campaigns.  The     *)
(* edges of a bundle are some of the edges of its family, in the order     *)
(* given or in the opposite order; at most MaxFlagged records are revoked  *)
(* or missing.                                                             *)
(***************************************************************************)
BridgeSoftwareShapes ==
    <<<<G1, "uses", W1>>, <<Ca, "uses", W1>>, <<Ca, "uses", M1>>,
      <<Ca, "attributed-to", G1>>, <<Cb, "attributed-to", G1>>>>

BridgeTechniqueOrder == <<G1, G2, T1, Ca, Cb>>

BridgeTechniqueShapes ==
    <<<<G1, "uses", T1>>, <<Ca, "uses", T1>>, <<Cb, "uses", T1>>,
      <<Ca, "attributed-to", G1>>, <<Cb, "attributed-to", G2>>>>

Reverse(s) == [i \in 1..Len(s) |-> s[Len(s) + 1 - i]]

BridgeBundles(order, shapes) ==
    UNION {{Bundle(order, p[1], q, p[2]) :
               p \in {ss \in [Range(order) -> {"live", "revoked", "missing"}]
                                \X [DOMAIN q -> {"live", "revoked"}] :
                         Flagged(ss[1]) + Flagged(ss[2]) <= MaxFlagged}} :
           q \in UNION {{Chosen(shapes, chosen), Reverse(Chosen(shapes, chosen))} :
                           chosen \in SUBSET Range(shapes)}}

InitBridge ==
    /\ src \in BridgeBundles(SoftwareOrder, BridgeSoftwareShapes)
               \cup BridgeBundles(BridgeTechniqueOrder, BridgeTechniqueShapes)
    /\ env = EmptyEnv
    /\ reg = <<>>
    /\ ret = NoRet
    /\ nmerge = 0

CallGroupsUsingSoftware ==
    ReturnDict("get_groups_using_software", get_groups_using_software)

CallTechniquesUsedByGroups ==
    ReturnDict("get_techniques_used_by_groups", get_techniques_used_by_groups)

CallGroupsUsingTechniques ==
    ReturnDict("get_groups_using_techniques", get_groups_using_techniques)

NextBridge ==
    \/ CallSoftwareUsedByGroups
    \/ CallGroupsUsingSoftware
    \/ CallTechniquesUsedByGroups
    \/ CallGroupsUsingTechniques
    \/ Release

SpecBridge == InitBridge /\ [][NextBridge]_vars

(***************************************************************************)
(* The revocation specification: a loaded bundle of techniques and         *)
(* revoked-by edges between them, and calls of get_revoked_by.             *)
(***************************************************************************)
RevokedOrder == <<T1, T2, T3>>

RevokedShapes ==
    <<<<T1, "revoked-by", T2>>, <<T1, "revoked-by", T3>>, <<T2, "revoked-by", T3>>>>

InitRevoked ==
    /\ src \in BridgeBundles(RevokedOrder, RevokedShapes)
    /\ env = EmptyEnv
    /\ reg = <<>>
    /\ ret = NoRet
    /\ nmerge = 0

CallGetRevokedBy ==
    \E stix_id \in Range(RevokedOrder) :
       ReturnLookup("get_revoked_by", <<stix_id>>, get_revoked_by(stix_id))

NextRevoked == CallGetRevokedBy

SpecRevoked == InitRevoked /\ [][NextRevoked]_vars

(***************************************************************************)
(* The frame specification: one process whose heap env holds the store's   *)
(* collection of records, at StoreList, and every dict and list the        *)
(* queries make.  The caller makes up to MaxFrameCalls calls, keeps the    *)
(* mappings it receives (reg, as in the repeat specification) and may hand *)
(* two mappings it received from get_related to merge.  After each call    *)
(* src is read back from the heap: it is what the store then holds.        *)
(***************************************************************************)
MaxFrameCalls == 3

InitFrame ==
    /\ src \in LiveBundles(SoftwareOrder, ReaderShapes)
    /\ env = LoadedEnv(src)
    /\ reg = <<>>
    /\ ret = NoRet
    /\ nmerge = 0

\* a call that ran on the heap returns the mapping at r.ref of the heap r.env
FrameReturnsMapping(name, args, r) ==
    /\ nmerge < MaxFrameCalls
    /\ env' = r.env
    /\ src' = r.env.lists[StoreList]
    /\ reg' = Append(reg, [op |-> name, ref |-> r.ref, val |-> ValueOf(r)])
    /\ ret' = [op |-> name, args |-> args, kind |-> "dict", val |-> ValueOf(r)]
    /\ nmerge' = nmerge + 1

\* a call that makes no object the caller keeps returns `result`
FrameReturnsValue(name, args, result) ==
    /\ nmerge < MaxFrameCalls
    /\ src' = env.lists[StoreList]
    /\ ret' = [op |-> name, args |-> args, kind |-> result.kind, val |-> result.val]
    /\ nmerge' = nmerge + 1
    /\ UNCHANGED <<env, reg>>

FrameGetRelated ==
    \E target_type \in {"tool", "malware"} :
       FrameReturnsMapping("get_related",
                           <<"intrusion-set", "uses", target_type, FALSE>>,
                           get_related_obj(env, "intrusion-set", "uses",
                                           target_type, FALSE))

\* merge called on two mappings that get_related returned to the caller
FrameMerge ==
    \E i \in 1..Len(reg), j \in 1..Len(reg) :
       /\ i # j
       /\ reg[i].op = "get_related"
       /\ reg[j].op = "get_related"
       /\ FrameReturnsMapping("merge", <<i, j>>, merge(env, reg[i].ref, reg[j].ref))

FrameSoftwareUsedByGroups ==
    FrameReturnsMapping("get_software_used_by_groups", <<>>,
                        get_software_used_by_groups_obj(env))

FrameGroupsUsingSoftware ==
    FrameReturnsMapping("get_groups_using_software", <<>>,
                        get_groups_using_software_obj(env))

FrameGetSoftware ==
    FrameReturnsValue("get_software", <<TRUE>>, ListResult(get_software(TRUE)))

FrameGetObjectByAttackId ==
    FrameReturnsValue("get_object_by_attack_id", <<"E1", "tool">>,
                      get_object_by_attack_id("E1", "tool"))

NextFrame ==
    \/ FrameGetRelated
    \/ FrameMerge
    \/ FrameSoftwareUsedByGroups
    \/ FrameGroupsUsingSoftware
    \/ FrameGetSoftware
    \/ FrameGetObjectByAttackId

SpecFrame == InitFrame /\ [][NextFrame]_vars

(***************************************************************************)
(* Vocabulary of the properties of get_related.                            *)
(***************************************************************************)
\* the relationship types of the knowledge base
relationship_types ==
    {"uses", "mitigates", "detects", "attributed-to", "subtechnique-of",
     "revoked-by"}

IsGetRelated == ret.op = "get_related"

\* a call of get_related whose three tags are in the vocabulary
IsValidGetRelated ==
    /\ ret.op = "get_related"
    /\ ret.args[1] \in stix_types
    /\ ret.args[2] \in relationship_types
    /\ ret.args[3] \in stix_types

ArgSource == ret.args[1]
ArgRel == ret.args[2]
ArgTarget == ret.args[3]
ArgReverse == ret.args[4]

\* the tag of the related side of the call held in ret
ArgRelated == IF ArgReverse THEN ArgSource ELSE ArgTarget

\* the record src[n] is an edge the call held in ret resolves
IsResolvedEdge(n) ==
    /\ src[n].type = "relationship"
    /\ src[n].relationship_type = ArgRel
    /\ src[n].revoked = FALSE
    /\ ~("x_mitre_deprecated" \in DOMAIN src[n] /\ src[n].x_mitre_deprecated)
    /\ IsSubstring(Chars(ArgSource), IdText(src[n].source_ref))
    /\ IsSubstring(Chars(ArgTarget), IdText(src[n].target_ref))

AnchorOf(r) == IF ArgReverse THEN r.target_ref ELSE r.source_ref

RelatedOf(r) == IF ArgReverse THEN r.source_ref ELSE r.target_ref

\* the record src[m] is the entity `id`, of type `tag`, and not revoked
IsUsable(m, id, tag) ==
    src[m].id = id /\ src[m].type = tag /\ src[m].revoked = FALSE

\* the edge src[n] has a related entity the call can resolve
HasUsableRelated(n) ==
    \E m \in 1..Len(src) : IsUsable(m, RelatedOf(src[n]), ArgRelated)

\* all pairs of the mapping held in ret
RetPairs ==
    UNION {{ret.val[i].val[j] : j \in 1..Len(ret.val[i].val)} :
              i \in 1..Len(ret.val)}

\* the mapping m has key k with the entity v among the objects of its pairs
InMap(m, k, v) ==
    Has(m, k) /\ \E j \in 1..Len(Val(m, k)) : Val(m, k)[j].object.id = v

RefIds ==
    {src[n].id : n \in 1..Len(src)}
    \cup UNION {{src[n].source_ref, src[n].target_ref} :
                   n \in {k \in 1..Len(src) : src[k].type = "relationship"}}

(***************************************************************************)
(* Properties of get_related.                                              *)
(***************************************************************************)
\* C1: get_related returns a mapping, and every pair of it carries the
\* entity at the other end of its edge, which is in the store and is not
\* revoked: an edge to a revoked or missing entity yields no pair.
C1_RelatedStoredNotRevoked ==
    IsGetRelated =>
        /\ ret.kind = "dict"
        /\ \A pair \in RetPairs :
              /\ pair.object.id = RelatedOf(pair.relationship)
              /\ \E m \in 1..Len(src) : src[m] = pair.object /\ src[m].revoked = FALSE

\* an anchor is in the mapping, one of its edges left out because the
\* entity at the other end is revoked
C1_Witness ==
    /\ IsGetRelated
    /\ \E n \in 1..Len(src) :
          /\ IsResolvedEdge(n)
          /\ \E m \in 1..Len(src) :
                src[m].id = RelatedOf(src[n]) /\ src[m].revoked = TRUE
          /\ Has(ret.val, AnchorOf(src[n]))
          /\ \A j \in 1..Len(Val(ret.val, AnchorOf(src[n]))) :
                Val(ret.val, AnchorOf(src[n]))[j].relationship # src[n]

\* C2 as stated: no pair of the mapping carries a deprecated entity.
C2_NoDeprecatedRelated ==
    IsValidGetRelated =>
        \A pair \in RetPairs : GetOr(pair.object, "x_mitre_deprecated", FALSE) = FALSE

\* C2 amended: only revoked or missing related entities are excluded; every
\* resolved edge whose related entity is stored and not revoked, deprecated
\* or not, has its pair in the sequence of its anchor.
C2_DeprecatedRelatedKept ==
    IsGetRelated =>
        /\ \A pair \in RetPairs : pair.object.revoked = FALSE
        /\ \A n \in 1..Len(src) : IsResolvedEdge(n) =>
              \A m \in 1..Len(src) :
                 IsUsable(m, RelatedOf(src[n]), ArgRelated) =>
                    /\ Has(ret.val, AnchorOf(src[n]))
                    /\ \E j \in 1..Len(Val(ret.val, AnchorOf(src[n]))) :
                          Val(ret.val, AnchorOf(src[n]))[j] =
                             [object |-> src[m], relationship |-> src[n]]

\* the mapping holds a pair whose entity is deprecated
C2_Witness ==
    /\ IsGetRelated
    /\ \E pair \in RetPairs :
          "x_mitre_deprecated" \in DOMAIN pair.object /\ pair.object.x_mitre_deprecated

\* C3 as stated: every key of the mapping has a non-empty sequence.
C3_NoEmptySequence ==
    IsValidGetRelated => \A i \in 1..Len(ret.val) : ret.val[i].val # <<>>

\* C3 amended: every anchor of a resolved edge is a key, and the sequence of
\* a key is empty exactly when all the edges of that anchor point to revoked
\* or missing entities.
C3_EmptyIffAllDangling ==
    IsGetRelated =>
        /\ \A n \in 1..Len(src) : IsResolvedEdge(n) => Has(ret.val, AnchorOf(src[n]))
        /\ \A i \in 1..Len(ret.val) :
              /\ \E n \in 1..Len(src) :
                    IsResolvedEdge(n) /\ AnchorOf(src[n]) = ret.val[i].key
              /\ ret.val[i].val = <<>> <=>
                    \A n \in 1..Len(src) :
                       (IsResolvedEdge(n) /\ AnchorOf(src[n]) = ret.val[i].key)
                          => ~HasUsableRelated(n)

\* a key of the mapping has an empty sequence
C3_Witness ==
    IsGetRelated /\ \E i \in 1..Len(ret.val) : ret.val[i].val = <<>>

\* the mapping of the same call in the other direction
OtherDirection == get_related(ArgSource, ArgRel, ArgTarget, ~ArgReverse)

\* the mappings forward and backward are transposes on the pairs (x, y) of
\* entities that satisfy Ends
Transposed(forward, backward, Ends(_, _)) ==
    \A x \in RefIds, y \in RefIds :
       (InMap(forward, x, y) /\ Ends(x, y)) <=> (InMap(backward, y, x) /\ Ends(x, y))

\* C7 as stated: the forward and the reverse mapping are transposes.
C7_Transposes ==
    IsValidGetRelated =>
        LET other == OtherDirection
        IN Transposed(IF ArgReverse THEN other ELSE ret.val,
                      IF ArgReverse THEN ret.val ELSE other,
                      LAMBDA x, y : TRUE)

\* the entity `id` is stored with type `tag` and is not revoked
Usable(id, tag) == \E m \in 1..Len(src) : IsUsable(m, id, tag)

\* C7 amended: the two mappings are transposes on the pairs whose two ends
\* are stored, non-revoked entities of the source and the target type; a pair
\* whose anchor is revoked or missing is in one direction only.
C7_TransposesOnUsable ==
    IsGetRelated =>
        LET other == OtherDirection
        IN Transposed(IF ArgReverse THEN other ELSE ret.val,
                      IF ArgReverse THEN ret.val ELSE other,
                      LAMBDA x, y : Usable(x, ArgSource) /\ Usable(y, ArgTarget))

\* a reverse call whose mapping and whose forward mapping both hold a pair
C7_Witness ==
    /\ IsGetRelated
    /\ ArgReverse
    /\ \E x \in RefIds, y \in RefIds :
          InMap(ret.val, y, x) /\ InMap(OtherDirection, x, y)

\* C10: get_related called with a tag outside the vocabulary fails.
C10_InvalidTagFails ==
    (IsGetRelated /\ (ArgSource \notin stix_types \/ ArgTarget \notin stix_types
                      \/ ArgRel \notin relationship_types))
       => ret.kind = "raise"

\* the record src[n] is an edge of the relationship type of the call held in
\* ret, neither revoked nor deprecated, from an identifier of the source type
\* to an identifier of the target type
IsTypedEdge(n) ==
    /\ src[n].type = "relationship"
    /\ src[n].relationship_type = ArgRel
    /\ src[n].revoked = FALSE
    /\ GetOr(src[n], "x_mitre_deprecated", FALSE) = FALSE
    /\ src[n].source_ref.type = ArgSource
    /\ src[n].target_ref.type = ArgTarget

\* the positions in the store of the edges listed under the anchor x: the
\* typed edges anchored at x whose other end is stored and not revoked
ListedEdges(x) ==
    SelectSeq([n \in 1..Len(src) |-> n],
              LAMBDA n : IsTypedEdge(n) /\ AnchorOf(src[n]) = x
                         /\ HasUsableRelated(n))

\* the pair of the edge src[n]: the entity at its other end, and the edge
PairOf(n) ==
    [object |-> src[CHOOSE m \in 1..Len(src) :
                       IsUsable(m, RelatedOf(src[n]), ArgRelated)],
     relationship |-> src[n]]

IsRevokedOrMissing(id) ==
    \A m \in 1..Len(src) : src[m].id = id => src[m].revoked = TRUE

\* C25: the keys of the mapping of get_related(S, R, T, reverse) are the
\* anchor identifiers of the edges of type R, neither revoked nor deprecated,
\* from an S identifier to a T identifier, whatever the status of the anchor
\* entity: revoked, deprecated or missing from the store, it is a key.
C25_KeysAreAnchorsOfTypedEdges ==
    IsValidGetRelated =>
        Keys(ret.val) = {AnchorOf(src[n]) : n \in {k \in 1..Len(src) : IsTypedEdge(k)}}

\* a key of the mapping is an entity that is revoked or not in the store
C25_Witness ==
    /\ IsValidGetRelated
    /\ \E i \in 1..Len(ret.val) : IsRevokedOrMissing(ret.val[i].key)

(***************************************************************************)
(* Properties of the composite queries.                                    *)
(***************************************************************************)
\* the software of each campaign of `hops`, tools then malware, in the order
\* of `hops`
RECURSIVE SoftwareOfCampaigns(_, _, _)
SoftwareOfCampaigns(hops, tools, malware) ==
    IF hops = <<>> THEN <<>>
    ELSE SeqOr(tools, Head(hops).object.id) \o SeqOr(malware, Head(hops).object.id)
         \o SoftwareOfCampaigns(Tail(hops), tools, malware)

\* C4: the entry of a group in get_software_used_by_groups() is its direct
\* tools, then its direct malware, then the software (tools, then malware)
\* of each campaign attributed to it, in the order in which the attributed
\* campaigns were resolved; the groups with an entry are those with a direct
\* edge or an attributed campaign.
C4_DirectThenCampaigns ==
    ret.op = "get_software_used_by_groups" =>
        LET tools == get_related("intrusion-set", "uses", "tool", FALSE)
            malware == get_related("intrusion-set", "uses", "malware", FALSE)
            ctools == get_related("campaign", "uses", "tool", FALSE)
            cmalware == get_related("campaign", "uses", "malware", FALSE)
            campaigns == get_related("campaign", "attributed-to", "intrusion-set", TRUE)
        IN /\ Keys(ret.val) = Keys(tools) \cup Keys(malware) \cup Keys(campaigns)
           /\ \A i \in 1..Len(ret.val) :
                 ret.val[i].val =
                    SeqOr(tools, ret.val[i].key) \o SeqOr(malware, ret.val[i].key)
                    \o SoftwareOfCampaigns(SeqOr(campaigns, ret.val[i].key),
                                           ctools, cmalware)

\* the entry of group G1 holds the tool W1 it uses itself before the malware
\* M1 used by a campaign attributed to it
C4_Witness ==
    /\ ret.op = "get_software_used_by_groups"
    /\ Has(ret.val, G1)
    /\ \E i \in 1..Len(Val(ret.val, G1)), j \in 1..Len(Val(ret.val, G1)) :
          /\ i < j
          /\ Val(ret.val, G1)[i].object.id = W1
          /\ Val(ret.val, G1)[i].relationship.source_ref = G1
          /\ Val(ret.val, G1)[j].object.id = M1
          /\ Val(ret.val, G1)[j].relationship.source_ref \in {Ca, Cb}

\* the record src[n] is a live `uses` edge from a tool or a malware to a
\* technique
IsSoftwareUsesTechnique(n) ==
    /\ src[n].type = "relationship"
    /\ src[n].relationship_type = "uses"
    /\ src[n].revoked = FALSE
    /\ ~("x_mitre_deprecated" \in DOMAIN src[n] /\ src[n].x_mitre_deprecated)
    /\ src[n].source_ref.type \in {"tool", "malware"}
    /\ src[n].target_ref.type = "attack-pattern"

\* C5: get_software_using_techniques()[T] has an entry for every non-revoked
\* tool and every non-revoked malware with a live `uses` edge to T, and
\* get_techniques_used_by_software() has every such tool and malware as a key.
C5_ToolsAndMalwareMerged ==
    /\ ret.op = "get_software_using_techniques" =>
          \A n \in 1..Len(src), m \in 1..Len(src) :
             (IsSoftwareUsesTechnique(n)
              /\ src[m].id = src[n].source_ref /\ src[m].revoked = FALSE)
                => /\ Has(ret.val, src[n].target_ref)
                   /\ \E j \in 1..Len(Val(ret.val, src[n].target_ref)) :
                         Val(ret.val, src[n].target_ref)[j] =
                            [object |-> src[m], relationship |-> src[n]]
    /\ ret.op = "get_techniques_used_by_software" =>
          \A n \in 1..Len(src) :
             IsSoftwareUsesTechnique(n) => Has(ret.val, src[n].source_ref)

\* the full mapping of which the accessor `op` returns one entry
FullMapping(op) ==
    CASE op = "get_software_used_by_group_with_id" -> get_software_used_by_groups
      [] op = "get_techniques_used_by_software_with_id" ->
            get_techniques_used_by_software
      [] op = "get_software_using_technique_with_id" -> get_software_using_techniques
      [] op = "get_techniques_mitigated_by_mitigation_with_id" ->
            get_techniques_mitigated_by_mitigations
      [] op = "get_mitigations_mitigating_technique_with_id" ->
            get_mitigations_mitigating_techniques

WithIdOps ==
    {"get_software_used_by_group_with_id", "get_techniques_used_by_software_with_id",
     "get_software_using_technique_with_id",
     "get_techniques_mitigated_by_mitigation_with_id",
     "get_mitigations_mitigating_technique_with_id"}

\* C6: a single-anchor accessor returns the sequence stored under stix_id in
\* its full mapping, and an empty sequence when stix_id is no key of it.
C6_WithIdIsEntryOfFullMapping ==
    ret.op \in WithIdOps =>
        LET full == FullMapping(ret.op)
        IN IF Has(full, ret.args[1])
           THEN ret.kind = "list" /\ ret.val = Val(full, ret.args[1])
           ELSE ret.val = <<>>

BridgedOps ==
    {"get_software_used_by_groups", "get_groups_using_software",
     "get_techniques_used_by_groups", "get_groups_using_techniques"}

\* the single-hop mappings a bridged composite joins: `direct` from the
\* anchor to its own entries, `first` from the anchor to its bridging
\* campaigns, `second` from a campaign to what it contributes; where the code
\* merges a mapping of tools and one of malware, the two are listed in turn
BridgeHops(op) ==
    CASE op = "get_software_used_by_groups" ->
            [direct |-> <<get_related("intrusion-set", "uses", "tool", FALSE),
                          get_related("intrusion-set", "uses", "malware", FALSE)>>,
             first |-> <<get_related("campaign", "attributed-to",
                                     "intrusion-set", TRUE)>>,
             second |-> <<get_related("campaign", "uses", "tool", FALSE),
                          get_related("campaign", "uses", "malware", FALSE)>>]
      [] op = "get_groups_using_software" ->
            [direct |-> <<get_related("intrusion-set", "uses", "tool", TRUE),
                          get_related("intrusion-set", "uses", "malware", TRUE)>>,
             first |-> <<get_related("campaign", "uses", "tool", TRUE),
                         get_related("campaign", "uses", "malware", TRUE)>>,
             second |-> <<get_related("campaign", "attributed-to",
                                      "intrusion-set", FALSE)>>]
      [] op = "get_techniques_used_by_groups" ->
            [direct |-> <<get_related("intrusion-set", "uses",
                                      "attack-pattern", FALSE)>>,
             first |-> <<get_related("campaign", "attributed-to",
                                     "intrusion-set", TRUE)>>,
             second |-> <<get_related("campaign", "uses", "attack-pattern", FALSE)>>]
      [] op = "get_groups_using_techniques" ->
            [direct |-> <<get_related("intrusion-set", "uses",
                                      "attack-pattern", TRUE)>>,
             first |-> <<get_related("campaign", "uses", "attack-pattern", TRUE)>>,
             second |-> <<get_related("campaign", "attributed-to",
                                      "intrusion-set", FALSE)>>]

\* the entries of the key k in the mappings `maps`, one mapping after the
\* other; a mapping without the key gives nothing
RECURSIVE EntryIn(_, _)
EntryIn(maps, k) ==
    IF maps = <<>> THEN <<>>
    ELSE SeqOr(Head(maps), k) \o EntryIn(Tail(maps), k)

KeysIn(maps) == UNION {Keys(maps[i]) : i \in DOMAIN maps}

\* what the campaigns of `hops` contribute, campaign after campaign
RECURSIVE Contributions(_, _)
Contributions(hops, second) ==
    IF hops = <<>> THEN <<>>
    ELSE EntryIn(second, Head(hops).object.id) \o Contributions(Tail(hops), second)

\* C22: a bridged composite returns a mapping; every anchor with a bridging
\* campaign has an entry, its direct entries followed by the contributions
\* of its campaigns, where a campaign that is no key of the second-hop
\* mapping contributes nothing and an anchor without a direct entry has the
\* contributions of its campaigns alone.
C22_BridgedAloneWithoutDirect ==
    ret.op \in BridgedOps =>
        LET hops == BridgeHops(ret.op)
        IN /\ ret.kind = "dict"
           /\ \A x \in KeysIn(hops.first) :
                 /\ Has(ret.val, x)
                 /\ Val(ret.val, x) =
                       EntryIn(hops.direct, x)
                       \o Contributions(EntryIn(hops.first, x), hops.second)

\* an anchor without a direct entry and with two bridging campaigns, one of
\* them no key of the second-hop mapping: its entry is what the other
\* contributes
C22_Witness ==
    /\ ret.op \in BridgedOps
    /\ LET hops == BridgeHops(ret.op)
       IN \E x \in KeysIn(hops.first) \ KeysIn(hops.direct) :
             /\ Val(ret.val, x) # <<>>
             /\ \E j \in 1..Len(EntryIn(hops.first, x)) :
                   EntryIn(hops.first, x)[j].object.id \notin KeysIn(hops.second)

\* the positions in the store, in store order, of the edges of type rel from
\* an identifier of type source_type to one of type target_type that are
\* neither revoked nor deprecated
LiveEdges(rel, source_type, target_type) ==
    SelectSeq([n \in 1..Len(src) |-> n],
              LAMBDA n : /\ src[n].type = "relationship"
                         /\ src[n].relationship_type = rel
                         /\ src[n].revoked = FALSE
                         /\ GetOr(src[n], "x_mitre_deprecated", FALSE) = FALSE
                         /\ src[n].source_ref.type = source_type
                         /\ src[n].target_ref.type = target_type)

\* the entity id is in the store and is not revoked
InStoreNotRevoked(id) ==
    \E m \in 1..Len(src) : src[m].id = id /\ src[m].revoked = FALSE

\* the pair of the edge at position n with the entity id
PairWith(n, id) ==
    [object |-> src[CHOOSE m \in 1..Len(src) :
                       src[m].id = id /\ src[m].revoked = FALSE],
     relationship |-> src[n]]

\* the groups using technique t themselves, one pair for each edge
DirectGroups(t) ==
    LET edges == SelectSeq(LiveEdges("uses", "intrusion-set", "attack-pattern"),
                           LAMBDA n : src[n].target_ref = t
                                      /\ InStoreNotRevoked(src[n].source_ref))
    IN [j \in 1..Len(edges) |-> PairWith(edges[j], src[edges[j]].source_ref)]

\* the groups campaign c is attributed to, one pair for each edge
AttributedGroups(c) ==
    LET edges == SelectSeq(LiveEdges("attributed-to", "campaign", "intrusion-set"),
                           LAMBDA n : src[n].source_ref = c
                                      /\ InStoreNotRevoked(src[n].target_ref))
    IN [j \in 1..Len(edges) |-> PairWith(edges[j], src[edges[j]].target_ref)]

\* the edges by which a campaign of the store, not revoked, uses technique t
CampaignUses(t) ==
    SelectSeq(LiveEdges("uses", "campaign", "attack-pattern"),
              LAMBDA n : src[n].target_ref = t
                         /\ InStoreNotRevoked(src[n].source_ref))

RECURSIVE GroupsThroughCampaigns(_)
GroupsThroughCampaigns(edges) ==
    IF edges = <<>> THEN <<>>
    ELSE AttributedGroups(src[Head(edges)].source_ref)
         \o GroupsThroughCampaigns(Tail(edges))

Occurrences(m, k, v) ==
    Cardinality({j \in 1..Len(SeqOr(m, k)) : SeqOr(m, k)[j].object.id = v})

\* the composite in the other direction
Opposite(op) ==
    CASE op = "get_software_used_by_groups" -> get_groups_using_software
      [] op = "get_groups_using_software" -> get_software_used_by_groups
      [] op = "get_techniques_used_by_groups" -> get_groups_using_techniques
      [] op = "get_groups_using_techniques" -> get_techniques_used_by_groups

NoEntityRevoked ==
    \A n \in 1..Len(src) : src[n].type # "relationship" => src[n].revoked = FALSE

\* the two ends of every edge are in the store
NoEndMissing ==
    \A n \in 1..Len(src) :
       src[n].type = "relationship" =>
          \A id \in {src[n].source_ref, src[n].target_ref} :
             \E m \in 1..Len(src) : src[m].id = id

\* C27 as stated: in a store where no entity is revoked, x is listed under y
\* by a bridged composite as often as y is listed under x by the composite
\* in the other direction.
C27_BridgedTransposes ==
    (ret.op \in BridgedOps /\ NoEntityRevoked) =>
        LET other == Opposite(ret.op)
        IN \A x \in RefIds, y \in RefIds :
              Occurrences(ret.val, x, y) = Occurrences(other, y, x)

\* C27 amended: in a store where no entity is revoked and the two ends of
\* every edge are in the store, x is listed under y by a bridged composite as
\* often as y is listed under x by the composite in the other direction.
C27_BridgedTransposesOnStoredEnds ==
    (ret.op \in BridgedOps /\ NoEntityRevoked /\ NoEndMissing) =>
        LET other == Opposite(ret.op)
        IN \A x \in RefIds, y \in RefIds :
              Occurrences(ret.val, x, y) = Occurrences(other, y, x)

\* no entity revoked, no end missing, and an entity listed twice under a
\* key: once for its own edge and once through a campaign
C27_Witness ==
    /\ ret.op \in BridgedOps
    /\ NoEntityRevoked
    /\ NoEndMissing
    /\ \E x \in RefIds, y \in RefIds :
          /\ Occurrences(ret.val, x, y) = 2
          /\ Occurrences(Opposite(ret.op), y, x) = 2

(***************************************************************************)
(* Properties of merge.                                                    *)
(***************************************************************************)
\* the mapping the last merge returned, as it is now
Merged == Deref(env, ret.val)

\* C8: merge(map_a, map_b) returns map_a itself; under every key of map_b it
\* holds what map_a held before (nothing if the key was absent) followed by
\* the sequence of map_b, duplicates kept; the other keys of map_a keep their
\* sequences.
C8_MergeAppends ==
    ret.op = "merge" =>
        /\ ret.val = reg[ret.args[1]]
        /\ Keys(Merged) = Keys(ret.pre_a) \cup Keys(ret.pre_b)
        /\ \A k \in Keys(ret.pre_b) :
              Val(Merged, k) = SeqOr(ret.pre_a, k) \o Val(ret.pre_b, k)
        /\ \A k \in Keys(ret.pre_a) \ Keys(ret.pre_b) :
              Val(Merged, k) = Val(ret.pre_a, k)

\* a merge under a key of both mappings, both holding the same pair: the
\* pair is there twice
C8_Witness ==
    /\ ret.op = "merge"
    /\ \E k \in Keys(ret.pre_a) \cap Keys(ret.pre_b) :
          /\ Val(ret.pre_a, k) # <<>>
          /\ Val(ret.pre_a, k) = Val(ret.pre_b, k)
          /\ Len(Val(Merged, k)) = 2 * Len(Val(ret.pre_a, k))

\* how often the pair p occurs in the sequence q
Count(q, p) == Cardinality({i \in 1..Len(q) : q[i] = p})

\* C9: merge(a, merge(b, c)) and merge(merge(a, b), c), on independent
\* copies, have the same keys and under each key the same multiset of pairs.
C9_MergeAssociative ==
    ret.op = "merge_both_ways" =>
        /\ Keys(ret.left) = Keys(ret.right)
        /\ \A k \in Keys(ret.left) :
              \A p \in {P1, P2} :
                 Count(Val(ret.left, k), p) = Count(Val(ret.right, k), p)

\* the three mappings all contribute to one key
C9_Witness ==
    /\ ret.op = "merge_both_ways"
    /\ \E k \in Keys(ret.left) :
          /\ Len(Val(ret.left, k)) >= 3
          /\ \A x \in DOMAIN reg :
                Has(Deref(env, reg[x]), k) /\ Val(Deref(env, reg[x]), k) # <<>>

\* C26: after any sequence of merge calls, a mapping that was never passed
\* as map_a has the keys and the sequences it had before the first call.
C26_MapBNeverChanged ==
    ret.op = "merge" =>
        \A z \in DOMAIN reg \ ret.as_map_a : Deref(env, reg[z]) = ret.first[z]

(***************************************************************************)
(* Properties of remove_revoked_deprecated.                                *)
(***************************************************************************)
\* the flag `flag` of the record x is present and true
PresentAndTrue(x, flag) == flag \in DOMAIN x /\ x[flag] = TRUE

\* the positions of xs whose record has neither flag present and true
KeptPositions(xs) ==
    {i \in 1..Len(xs) : ~PresentAndTrue(xs[i], "x_mitre_deprecated")
                        /\ ~PresentAndTrue(xs[i], "revoked")}

\* the j-th smallest member of the set of positions S
NthOf(S, j) == CHOOSE i \in S : Cardinality({k \in S : k <= i}) = j

\* C14: remove_revoked_deprecated(xs) returns the records of xs that have
\* neither flag present and true, an absent flag counting as false, each
\* once and in the order of xs, and xs itself is as it was before the call.
C14_OrderPreservingSubsequence ==
    ret.op = "remove_revoked_deprecated" =>
        LET xs == ret.pre
            kept == KeptPositions(xs)
        IN /\ ret.kind = "list"
           /\ Len(ret.val) = Cardinality(kept)
           /\ \A j \in 1..Len(ret.val) : ret.val[j] = xs[NthOf(kept, j)]
           /\ env.lists[ret.args[1]] = xs

\* a list of three records, the middle one revoked and the two others, one
\* of them without any flag, returned in their order
C14_Witness ==
    /\ ret.op = "remove_revoked_deprecated"
    /\ Len(ret.pre) = 3
    /\ PresentAndTrue(ret.pre[2], "revoked")
    /\ DOMAIN ret.pre[1] = {"id"}
    /\ ret.pre[1] # ret.pre[3]
    /\ ret.val = <<ret.pre[1], ret.pre[3]>>

(***************************************************************************)
(* Properties of the per-type accessors.                                   *)
(***************************************************************************)
\* the type tags of the entities the accessor `op` is for
AccessorTypes(op) ==
    CASE op = "get_matrices" -> {"x-mitre-matrix"}
      [] op = "get_tactics" -> {"x-mitre-tactic"}
      [] op = "get_techniques" -> {"attack-pattern"}
      [] op = "get_mitigations" -> {"course-of-action"}
      [] op = "get_groups" -> {"intrusion-set"}
      [] op = "get_software" -> {"tool", "malware"}
      [] op = "get_campaigns" -> {"campaign"}
      [] op = "get_datasources" -> {"x-mitre-data-source"}
      [] op = "get_datacomponents" -> {"x-mitre-data-component"}

\* the result of the accessor `op` without the filter
Unfiltered(op) ==
    CASE op = "get_matrices" -> get_matrices(FALSE)
      [] op = "get_tactics" -> get_tactics(FALSE)
      [] op = "get_techniques" -> get_techniques(FALSE)
      [] op = "get_mitigations" -> get_mitigations(FALSE)
      [] op = "get_groups" -> get_groups(FALSE)
      [] op = "get_software" -> get_software(FALSE)
      [] op = "get_campaigns" -> get_campaigns(FALSE)
      [] op = "get_datasources" -> get_datasources(FALSE)
      [] op = "get_datacomponents" -> get_datacomponents(FALSE)

AccessorOps ==
    {"get_matrices", "get_tactics", "get_techniques", "get_mitigations",
     "get_groups", "get_software", "get_campaigns", "get_datasources",
     "get_datacomponents"}

\* C15: the list of a per-type accessor holds only entities of the type, or
\* types, of the accessor, each of them stored; with the filter flag set it
\* is the unfiltered list without its revoked and its deprecated members,
\* the others all there and in the same order.
C15_TypedAndFilteredSubset ==
    ret.op \in AccessorOps =>
        /\ \A j \in 1..Len(ret.val) :
              /\ ret.val[j].type \in AccessorTypes(ret.op)
              /\ \E n \in 1..Len(src) : src[n] = ret.val[j]
        /\ ret.args[1] =>
              LET all == Unfiltered(ret.op)
                  kept == KeptPositions(all)
              IN /\ Len(ret.val) = Cardinality(kept)
                 /\ \A j \in 1..Len(ret.val) : ret.val[j] = all[NthOf(kept, j)]

\* get_software with the filter set, on a store of a flagged software and a
\* live one: the list is the live one alone
C15_Witness ==
    /\ ret.op = "get_software"
    /\ ret.args[1]
    /\ Len(Unfiltered("get_software")) = 2
    /\ Len(ret.val) = 1
    /\ ret.val[1].revoked = FALSE
    /\ "x_mitre_deprecated" \notin DOMAIN ret.val[1]

(***************************************************************************)
(* Properties of the lookups.                                              *)
(***************************************************************************)
\* C11: get_object_by_attack_id, get_object_by_name and
\* get_objects_by_content called with an object_type outside stix_types, and
\* get_techniques_by_tactic called with a domain outside the three domains,
\* raise ValueError, and the call has issued no store query.
C11_InvalidTagRaisesBeforeQuery ==
    /\ (ret.op \in {"get_object_by_attack_id", "get_object_by_name"}
        /\ ret.args[2] \notin stix_types)
          => (ret.kind = "raise" /\ ret.exception = "ValueError"
              /\ ret.queries = 0)
    /\ (ret.op = "get_objects_by_content"
        /\ ret.args[2] \notin stix_types \cup {None})
          => (ret.kind = "raise" /\ ret.exception = "ValueError"
              /\ ret.queries = 0)
    /\ (ret.op = "get_techniques_by_tactic"
        /\ ret.args[2] \notin {"enterprise-attack", "mobile-attack", "ics-attack"})
          => (ret.kind = "raise" /\ ret.exception = "ValueError"
              /\ ret.queries = 0)

\* the positions of the records of type object_type that pass Match
Matching(object_type, Match(_)) ==
    {n \in 1..Len(src) : src[n].type = object_type /\ Match(src[n])}

\* the lookup held in ret ends with the first record, in store order, of
\* type object_type that passes Match, and with IndexError when there is none
FirstMatchOrIndexError(object_type, Match(_)) ==
    LET matching == Matching(object_type, Match)
    IN IF matching = {}
       THEN ret.kind = "raise" /\ ret.exception = "IndexError"
       ELSE ret.kind = "object" /\ ret.val = src[NthOf(matching, 1)]

HasName(x, name) == "name" \in DOMAIN x /\ x.name = name

HasAlias(x, property, alias) ==
    property \in DOMAIN x /\ \E i \in 1..Len(x[property]) : x[property][i] = alias

\* C12: get_object_by_name(name, object_type), object_type in stix_types,
\* returns the first entity in store order of that type and that name, and
\* fails with IndexError when there is none; get_group_by_alias and
\* get_campaign_by_alias do so for the first group or campaign that has the
\* alias, and get_software_by_alias for the first malware that has it, or
\* the first tool when no malware has it.
C12_FirstMatchOrIndexError ==
    /\ (ret.op = "get_object_by_name" /\ ret.args[2] \in stix_types) =>
          FirstMatchOrIndexError(ret.args[2], LAMBDA x : HasName(x, ret.args[1]))
    /\ ret.op = "get_group_by_alias" =>
          FirstMatchOrIndexError("intrusion-set",
                                 LAMBDA x : HasAlias(x, "aliases", ret.args[1]))
    /\ ret.op = "get_campaign_by_alias" =>
          FirstMatchOrIndexError("campaign",
                                 LAMBDA x : HasAlias(x, "aliases", ret.args[1]))
    /\ ret.op = "get_software_by_alias" =>
          IF Matching("malware", LAMBDA x : HasAlias(x, "x_mitre_aliases", ret.args[1]))
                # {}
          THEN FirstMatchOrIndexError(
                   "malware", LAMBDA x : HasAlias(x, "x_mitre_aliases", ret.args[1]))
          ELSE FirstMatchOrIndexError(
                   "tool", LAMBDA x : HasAlias(x, "x_mitre_aliases", ret.args[1]))

\* get_object_by_name on a store with two entities of the type and the name:
\* the one stored first is returned
C12_Witness ==
    /\ ret.op = "get_object_by_name"
    /\ ret.kind = "object"
    /\ \E n \in 1..Len(src), m \in 1..Len(src) :
          /\ n < m
          /\ src[n].type = ret.args[2] /\ HasName(src[n], ret.args[1])
          /\ src[m].type = ret.args[2] /\ HasName(src[m], ret.args[1])
          /\ ret.val = src[n]

\* the record x has a reference with this external_id in the namespace
\* mitre-attack
HasAttackId(x, attack_id) ==
    /\ "external_references" \in DOMAIN x
    /\ \E i \in 1..Len(x.external_references) :
          /\ x.external_references[i].external_id = attack_id
          /\ x.external_references[i].source_name = "mitre-attack"

\* C13: get_object_by_attack_id(attack_id, object_type), object_type in
\* stix_types, returns the first entity in store order of that type with an
\* external reference whose external_id is attack_id and whose source_name
\* is mitre-attack; an entity whose references with that external_id are all
\* of another source_name is not returned.
C13_FirstInNamespace ==
    (ret.op = "get_object_by_attack_id" /\ ret.args[2] \in stix_types) =>
        FirstMatchOrIndexError(ret.args[2], LAMBDA x : HasAttackId(x, ret.args[1]))

\* the record x has a description that contains content, letter case aside
DescriptionContains(x, content) ==
    "description" \in DOMAIN x /\ IsSubstring(lower(content), lower(x.description))

\* C16: get_objects_by_content(content, object_type, remove_revoked_deprecated),
\* object_type in stix_types or left out, returns the stored entities, of
\* that type or of any type, whose description contains content, letter case
\* aside, in store order; with the flag set the revoked and the deprecated
\* ones are left out.
C16_ContentSearch ==
    (ret.op = "get_objects_by_content" /\ ret.args[2] \in stix_types \cup {None}) =>
        LET found == {n \in 1..Len(src) :
                         /\ ret.args[2] # None => src[n].type = ret.args[2]
                         /\ DescriptionContains(src[n], ret.args[1])
                         /\ ret.args[3] => n \in KeptPositions(src)}
        IN /\ ret.kind = "list"
           /\ Len(ret.val) = Cardinality(found)
           /\ \A j \in 1..Len(ret.val) : ret.val[j] = src[NthOf(found, j)]

\* the record x has one kill-chain phase entry with this phase_name in the
\* kill chain of this domain
HasPhaseIn(x, tactic_shortname, domain) ==
    /\ "kill_chain_phases" \in DOMAIN x
    /\ \E i \in 1..Len(x.kill_chain_phases) :
          /\ x.kill_chain_phases[i].phase_name = tactic_shortname
          /\ x.kill_chain_phases[i].kill_chain_name = Val(domain_to_kill_chain, domain)

\* C28: every technique returned by get_techniques_by_tactic(tactic_shortname,
\* domain), domain one of the three domains, has a single kill-chain phase
\* entry whose phase_name is tactic_shortname and whose kill_chain_name is
\* the kill-chain label of the domain.
C28_OnePhaseEntryMatchesBoth ==
    (ret.op = "get_techniques_by_tactic"
     /\ ret.args[2] \in Keys(domain_to_kill_chain)) =>
        /\ ret.kind = "list"
        /\ \A j \in 1..Len(ret.val) : HasPhaseIn(ret.val[j], ret.args[1], ret.args[2])

\* the targets of the revoked-by edges whose source is stix_id
RevokingIds(stix_id) ==
    {src[n].target_ref : n \in {k \in 1..Len(src) :
                                   /\ src[k].type = "relationship"
                                   /\ src[k].relationship_type = "revoked-by"
                                   /\ src[k].source_ref = stix_id}}

\* the positions of the stored, non-revoked entities that revoke stix_id
Revoking(stix_id) ==
    {n \in 1..Len(src) : src[n].id \in RevokingIds(stix_id) /\ ~src[n].revoked}

\* C29: get_revoked_by(stix_id) returns the first non-revoked entity, in
\* store order, that is the target of a revoked-by edge whose source is
\* stix_id; when there is none it returns without raising an exception.
C29_FirstRevokingOrAbsent ==
    ret.op = "get_revoked_by" =>
        LET revoking == Revoking(ret.args[1])
        IN IF revoking = {} THEN ret.kind # "raise"
           ELSE ret.kind = "object" /\ ret.val = src[NthOf(revoking, 1)]

\* the external references of the stored entity stix_id, none for an entity
\* without the field
ReferencesOf(stix_id) ==
    LET n == CHOOSE k \in 1..Len(src) : src[k].id = stix_id
    IN GetOr(src[n], "external_references", <<>>)

\* C30: get_attack_id(stix_id), stix_id a stored entity, returns the
\* external_id of the entity's first external reference when that reference
\* has a non-empty external_id and the source_name mitre-attack, and the
\* absent value in every other case: no references, the reference of the
\* namespace at a later position, or a first reference of another namespace.
C30_FirstReferenceInNamespaceOnly ==
    (ret.op = "get_attack_id" /\ \E k \in 1..Len(src) : src[k].id = ret.args[1]) =>
        LET refs == ReferencesOf(ret.args[1])
        IN /\ ret.kind = "value"
           /\ IF /\ refs # <<>>
                 /\ refs[1].external_id # ""
                 /\ refs[1].source_name = "mitre-attack"
              THEN ret.val = refs[1].external_id
              ELSE ret.val = None

\* the entity's first reference is of another namespace, a later one is of
\* mitre-attack, and the call has returned the absent value
C30_Witness ==
    /\ ret.op = "get_attack_id"
    /\ ret.kind = "value"
    /\ ret.val = None
    /\ \E k \in 1..Len(src) :
          /\ src[k].id = ret.args[1]
          /\ "external_references" \in DOMAIN src[k]
          /\ Len(src[k].external_references) = 2
          /\ src[k].external_references[1].source_name = "capec"
          /\ src[k].external_references[2].source_name = "mitre-attack"

(***************************************************************************)
(* Properties of get_tactics_by_matrix.                                    *)
(***************************************************************************)
IsMatrix(n) == src[n].type = "x-mitre-matrix"

\* the stored record of the identifier id, NoneObject when there is none
Stored(id) ==
    IF \E k \in 1..Len(src) : src[k].id = id
    THEN src[CHOOSE k \in 1..Len(src) : src[k].id = id]
    ELSE NoneObject

\* the sequence `tactics` is the tactic_refs of the matrix src[n], each
\* resolved by its identifier, in the order of tactic_refs
InDeclaredOrder(tactics, n) ==
    /\ Len(tactics) = Len(src[n].tactic_refs)
    /\ \A j \in 1..Len(tactics) : tactics[j] = Stored(src[n].tactic_refs[j])

Uses(source, target) ==
    \E n \in 1..Len(src) :
       /\ src[n].type = "relationship"
       /\ src[n].relationship_type = "uses"
       /\ src[n].source_ref = source
       /\ src[n].target_ref = target

\* the tools and malware that the group uses and that use the technique
SoftwareBetween(group, technique) ==
    {s \in RefIds : /\ s.type \in {"tool", "malware"}
                    /\ Uses(group, s)
                    /\ Uses(s, technique)}

\* C18 as stated: a stored technique is in the result once for each software
\* item of the group that uses it.
C18_OncePerSoftware ==
    ret.op = "get_techniques_used_by_group_software" =>
        \A n \in 1..Len(src) : src[n].type = "attack-pattern" =>
           Count(ret.val, src[n]) = Cardinality(SoftwareBetween(ret.args[1], src[n].id))

\* C18 amended: the result is the stored techniques reached by a `uses` edge
\* from a tool or malware that a `uses` edge of the group points to, in
\* store order, each of them once however many software items reach it.
C18_EachTechniqueOnce ==
    ret.op = "get_techniques_used_by_group_software" =>
        LET reached == {n \in 1..Len(src) :
                           /\ src[n].type = "attack-pattern"
                           /\ SoftwareBetween(ret.args[1], src[n].id) # {}}
        IN /\ Len(ret.val) = Cardinality(reached)
           /\ \A j \in 1..Len(ret.val) : ret.val[j] = src[NthOf(reached, j)]

\* a technique that two software items of the group use is in the result,
\* once
C18_Witness ==
    /\ ret.op = "get_techniques_used_by_group_software"
    /\ \E n \in 1..Len(src) :
          /\ src[n].type = "attack-pattern"
          /\ Cardinality(SoftwareBetween(ret.args[1], src[n].id)) = 2
          /\ Count(ret.val, src[n]) = 1

(***************************************************************************)
(* Properties of repeated composite queries.                               *)
(***************************************************************************)
\* C19: on an unchanged store, two calls of the same composite query, one
\* right after the other or with other queries in between, return equal
\* mappings, and a mapping returned earlier is not changed by a later call.
C19_RepeatedCallsAgree ==
    \A i \in 1..Len(reg) :
       /\ Deref(env, reg[i].ref) = reg[i].val
       /\ \A j \in 1..Len(reg) : reg[i].op = reg[j].op => reg[i].val = reg[j].val

\* get_software_used_by_groups called twice, the mapping it returned holding
\* an entry that merge and the loop over the campaigns built
C19_Witness ==
    /\ Len(reg) = 2
    /\ reg[1].op = "get_software_used_by_groups"
    /\ reg[2].op = "get_software_used_by_groups"
    /\ reg[1].ref # reg[2].ref
    /\ \E i \in 1..Len(reg[2].val) : Len(reg[2].val[i].val) >= 3

(***************************************************************************)
(* Properties of concurrent readers.                                       *)
(***************************************************************************)
\* the mapping the query of a finished reader returns when it runs alone
Alone(call) ==
    IF call.op = "get_software_used_by_groups" THEN get_software_used_by_groups
    ELSE get_related(call.args[1], call.args[2], call.args[3], call.args[4])

\* C20: whatever the interleaving of the statements of the readers, the
\* mapping a reader receives is the mapping its query returns when it runs
\* alone on the same store, and the steps the other readers take afterwards
\* leave it so.
C20_ReadersAsAlone ==
    \A r \in Readers :
       ret[r] # NoRet =>
          /\ ret[r].val = Alone(ret[r])
          /\ Deref(env, ret[r].ref) = Alone(ret[r])

\* two readers of get_software_used_by_groups have returned, the second
\* having made its first call of get_related while the first was between
\* its calls of merge, and the mapping holds a bridged entry
C20_Witness ==
    /\ \A r \in Readers :
          ret[r] # NoRet /\ ret[r].op = "get_software_used_by_groups"
    /\ reg["r1"].tools_used_by_group < reg["r2"].tools_used_by_group
    /\ reg["r2"].tools_used_by_group < reg["r1"].tools_used_by_campaign
    /\ reg["r1"].campaigns < reg["r2"].malware_used_by_group
    /\ \E i \in 1..Len(ret["r1"].val) : Len(ret["r1"].val[i].val) >= 3

(***************************************************************************)
(* Properties of the store.                                                *)
(***************************************************************************)
\* C24: no call of a query, of whatever kind and after whatever calls,
\* changes the records the store holds.
C24_StoreUnchanged == [][src' = src]_vars

\* the caller has merged two mappings it received from get_related, the
\* merged list two pairs long, and the store holds what it held
C24_Witness ==
    /\ ret.op = "merge"
    /\ \E i \in 1..Len(ret.val) : Len(ret.val[i].val) = 2
    /\ env.lists[StoreList] = src

====
